---- MODULE Spec2Model ----
(***************************************************************************)
(* Model of the bookbinder imposition pipeline                             *)
(*   build_ordered_pages -> split_signatures -> impose_signature           *)
(*   (bookbinder/imposition/core.py) as driven by                          *)
(*   write_duplex_aggregated_pdf (bookbinder/imposition/pdf_writer.py).    *)
(*                                                                         *)
(* A caller enters the library at one of its public entry points with      *)
(* arguments drawn from bounded sets; each action is one function call (or *)
(* one iteration of the per-signature loop) translated from the source.    *)
(*                                                                         *)
(* Python values: a page token is a tagged pair, <<"int", i>> for the      *)
(* integer i and <<"str", s>> for the string s, so that an integer and the *)
(* blank sentinel are different values that can be compared.  Python       *)
(* sequences are 0-based; the operators PyIndex, PySlice and PyRange carry *)
(* Python's indexing rules over to TLA+'s 1-based sequences.               *)
(*                                                                         *)
(* Spec is the library driven directly.  WebSpec is the web application    *)
(* (bookbinder/web/app.py) on its artifact directory: _impose_payload,     *)
(* _cleanup_stale_artifacts and _resolve_request_artifact_path.            *)
(***************************************************************************)
EXTENDS Integers, Sequences, FiniteSets, TLC

VARIABLES
    entry,              \* the public function the caller entered at
    pc,                 \* the caller's position in the pipeline; "<stage>_failed"
                        \* when the call of that stage raised
    source_pages,       \* argument of build_ordered_pages
    flyleaf_sets,       \* argument of build_ordered_pages
    build_with_flyleafs,      \* the local with_flyleafs of build_ordered_pages
    sig_length_sheets,  \* argument of split_signatures
    duplex_rotate,      \* argument of impose_signature
    reader_pages,       \* len(reader.pages) of the source document
    ordered_pages,      \* argument of split_signatures
    split_per_signature,      \* outcome of pages_per_signature in split_signatures
                        \* (Return(0) until it is called)
    signatures,         \* argument of write_duplex_aggregated_pdf
    imposed,            \* imposed[j]: outcome of impose_signature(signatures[j])
    output,             \* the list of sides impose_signatures returned
    merged_pages,       \* tokens whose page the writer merged into a slot
    preview,            \* <<>>, or <<the artifact write_first_sheet_preview returned>>
    writer_pages,       \* len(writer.pages) of the output document
    placed_tokens,      \* the local placed_tokens of write_duplex_aggregated_pdf
    error,              \* the exception that ended the pipeline, if any
    heap,               \* the list objects of the caller and of the core
                        \* functions; a reference is an index into heap
    refs,               \* the references the caller holds (0 for none)
    artifact_dir,       \* the children of the web application's artifact
                        \* directory: name, kind, modification time and, for
                        \* a directory, the names of the files in it
    now,                \* time.time(), in seconds
    handler,            \* the web function called last ("none" before any)
    arguments,          \* its arguments
    listing,            \* the children of the artifact directory at the call
    outcome             \* what it returned or raised

core_vars == <<entry, pc, source_pages, flyleaf_sets, build_with_flyleafs,
               sig_length_sheets, duplex_rotate, reader_pages, ordered_pages,
               split_per_signature, signatures, imposed, output, merged_pages,
               preview, writer_pages, placed_tokens, error, heap, refs>>

web_vars == <<artifact_dir, now, handler, arguments, listing, outcome>>

vars == <<core_vars, web_vars>>

----------------------------------------------------------------------------
(* Bounds of the model *)

\* largest page count of a source document
MaxPages == 9
\* largest flyleaf_sets argument
MaxFlyleafSets == 2
\* largest sig_length_sheets argument
MaxSheets == 6
\* longest token sequence handed directly to build_ordered_pages
MaxDirectSource == 3
\* longest page sequence handed directly to split_signatures
MaxDirectPages == 5
\* page count of the reader behind directly handed pages and signatures
DirectReaderPages == 2
\* longest signature handed directly to the imposition loop
MaxDirectSignature == 8
\* longest signature in a directly handed list of two signatures
MaxDirectPair == 4
\* longest directly handed signature that may hold tokens the renderer rejects
MaxRenderSignature == 4
\* longest filename of a download call that names no generated file
MaxFilename == 2
\* largest retention_seconds
MaxRetention == 2
\* latest time the clock reaches
MaxClock == 3
\* largest page count of an uploaded PDF
MaxUploadPages == 5
\* largest signature_length of an upload
MaxUploadSheets == 2
\* largest flyleafs of an upload
MaxUploadFlyleafs == 1

----------------------------------------------------------------------------
(* Python values *)

IntToken(i) == <<"int", i>>
StrToken(s) == <<"str", s>>
IsInt(token) == token[1] = "int"

BLANK_PAGE == StrToken("__BLANK_PAGE__")
\* mutants of the folio mappings
FOLIO_FRONT_MAPPING_swapped == <<2, 3>>
FOLIO_BACK_ROTATE_MAPPING_unrotated == <<1, 4>>

FOLIO_FRONT_MAPPING == <<3, 2>>
FOLIO_BACK_MAPPING == <<1, 4>>
FOLIO_BACK_ROTATE_MAPPING == <<4, 1>>

ImposedSide(face, left, right) == [face |-> face, left |-> left, right |-> right]

\* a call either returns a value or raises an exception
Return(value) == [raised |-> FALSE, type |-> "", message |-> "", value |-> value]
Raise(type, message) == [raised |-> TRUE, type |-> type, message |-> message, value |-> <<>>]

\* name = value, followed by Rest(name): the right side is evaluated once
Assign(value, Rest(_)) == CHOOSE result \in {Rest(name) : name \in {value}} : TRUE
NoError == [type |-> "", message |-> ""]
ErrorOf(result) == [type |-> result.type, message |-> result.message]

\* seq[i] for an in-range Python index i (negative counts from the end)
PyIndex(seq, i) == seq[(IF i < 0 THEN Len(seq) + i ELSE i) + 1]

\* mutant: the slice stops one element early, seq[lo:hi-1]
PySlice_short(seq, lo, hi) ==
    LET last == hi - 1
        stop == IF last > Len(seq) THEN Len(seq) ELSE last
        start == IF lo > stop THEN stop ELSE lo
    IN [j \in 1..(stop - start) |-> seq[start + j]]

\* seq[lo:hi] for 0 <= lo <= hi (hi is clamped to the length)
PySlice(seq, lo, hi) ==
    LET stop == IF hi > Len(seq) THEN Len(seq) ELSE hi
        start == IF lo > stop THEN stop ELSE lo
    IN [j \in 1..(stop - start) |-> seq[start + j]]

\* mutant: the range includes its stop, range(start, stop + 1, step)
RECURSIVE PyRange_inclusive(_, _, _)
PyRange_inclusive(start, stop, step) ==
    IF start > stop THEN <<>>
    ELSE <<start>> \o PyRange_inclusive(start + step, stop, step)

\* list(range(start, stop, step)) for step > 0
RECURSIVE PyRange(_, _, _)
PyRange(start, stop, step) ==
    IF start >= stop THEN <<>>
    ELSE <<start>> \o PyRange(start + step, stop, step)

\* [token] * count
Repeat(token, count) == [j \in 1..count |-> token]

----------------------------------------------------------------------------
(* core.py *)

\* mutant: the blanks after the pages are left out
insert_flyleafs_front_only(pages, sets, blank_token) ==
    IF sets < 0
    THEN Raise("ValueError", "flyleaf_sets must be >= 0")
    ELSE LET blanks_per_edge == sets * 2
             front_blanks == Repeat(blank_token, blanks_per_edge)
         IN Return(front_blanks \o pages)

\* mutant: a negative flyleaf_sets is not rejected ([token] * -2 is empty)
insert_flyleafs_lenient(pages, sets, blank_token) ==
    LET blanks_per_edge == sets * 2
        front_blanks == Repeat(blank_token, blanks_per_edge)
        back_blanks == Repeat(blank_token, blanks_per_edge)
    IN Return(front_blanks \o pages \o back_blanks)

insert_flyleafs(pages, sets, blank_token) ==
    IF sets < 0
    THEN Raise("ValueError", "flyleaf_sets must be >= 0")
    ELSE LET blanks_per_edge == sets * 2
             front_blanks == Repeat(blank_token, blanks_per_edge)
             back_blanks == Repeat(blank_token, blanks_per_edge)
         IN Return(front_blanks \o pages \o back_blanks)

\* mutant: the padding is put in front of the pages
pad_to_multiple_of_four_front(pages, blank_token) ==
    LET remainder == Len(pages) % 4
    IN IF remainder = 0
       THEN pages
       ELSE LET padding == 4 - remainder
            IN Repeat(blank_token, padding) \o pages

\* mutant: the padding is the next page index instead of the blank token
pad_to_multiple_of_four_numbered(pages, blank_token) ==
    LET remainder == Len(pages) % 4
    IN IF remainder = 0
       THEN pages
       ELSE LET padding == 4 - remainder
            IN pages \o Repeat(IntToken(Len(pages)), padding)

\* mutant: an aligned sequence gets four more blanks
pad_to_multiple_of_four_always(pages, blank_token) ==
    LET remainder == Len(pages) % 4
        padding == 4 - remainder
    IN pages \o Repeat(blank_token, padding)

pad_to_multiple_of_four(pages, blank_token) ==
    LET remainder == Len(pages) % 4
    IN IF remainder = 0
       THEN pages
       ELSE LET padding == 4 - remainder
            IN pages \o Repeat(blank_token, padding)

\* mutant: six pages per sheet
pages_per_signature_six(sheets) ==
    IF sheets <= 0
    THEN Raise("ValueError", "sig_length_sheets must be > 0")
    ELSE Return(sheets * 6)

\* mutant: two pages per sheet
pages_per_signature_two(sheets) ==
    IF sheets <= 0
    THEN Raise("ValueError", "sig_length_sheets must be > 0")
    ELSE Return(sheets * 2)

pages_per_signature(sheets) ==
    IF sheets <= 0
    THEN Raise("ValueError", "sig_length_sheets must be > 0")
    ELSE Return(sheets * 4)

\* mutant: the length of the pages is checked before sig_length_sheets
split_signatures_length_first(pages, sheets) ==
    LET per_signature == pages_per_signature(sheets)
    IN IF Len(pages) % 4 # 0
       THEN Raise("ValueError", "ordered_pages must be padded to a multiple of 4")
       ELSE IF per_signature.raised THEN per_signature
       ELSE LET starts == PyRange(0, Len(pages), per_signature.value)
                chunks == [j \in 1..Len(starts) |->
                              PySlice(pages, starts[j], starts[j] + per_signature.value)]
            IN IF \E j \in 1..Len(chunks) : Len(chunks[j]) % 4 # 0
               THEN Raise("ValueError", "each signature must have a page count divisible by 4")
               ELSE Return(chunks)

\* mutant: a last chunk shorter than per_signature is left out
split_signatures_full_only(pages, sheets) ==
    LET per_signature == pages_per_signature(sheets)
    IN IF per_signature.raised THEN per_signature
       ELSE IF Len(pages) % 4 # 0
       THEN Raise("ValueError", "ordered_pages must be padded to a multiple of 4")
       ELSE LET starts == PyRange(0, Len(pages) - per_signature.value + 1,
                                  per_signature.value)
                chunks == [j \in 1..Len(starts) |->
                              PySlice(pages, starts[j], starts[j] + per_signature.value)]
            IN IF \E j \in 1..Len(chunks) : Len(chunks[j]) % 4 # 0
               THEN Raise("ValueError", "each signature must have a page count divisible by 4")
               ELSE Return(chunks)

\* mutant: a misaligned input is padded instead of being rejected
split_signatures_pads(pages, sheets) ==
    LET per_signature == pages_per_signature(sheets)
        padded == pad_to_multiple_of_four(pages, BLANK_PAGE)
    IN IF per_signature.raised THEN per_signature
       ELSE LET starts == PyRange(0, Len(padded), per_signature.value)
                chunks == [j \in 1..Len(starts) |->
                              PySlice(padded, starts[j], starts[j] + per_signature.value)]
            IN Return(chunks)

split_signatures(pages, sheets) ==
    LET per_signature == pages_per_signature(sheets)
    IN IF per_signature.raised THEN per_signature
       ELSE IF Len(pages) % 4 # 0
       THEN Raise("ValueError", "ordered_pages must be padded to a multiple of 4")
       ELSE LET starts == PyRange(0, Len(pages), per_signature.value)
                chunks == [j \in 1..Len(starts) |->
                              PySlice(pages, starts[j], starts[j] + per_signature.value)]
            IN IF \E j \in 1..Len(chunks) : Len(chunks[j]) % 4 # 0
               THEN Raise("ValueError", "each signature must have a page count divisible by 4")
               ELSE Return(chunks)

\* mutant: the padding step is left out
build_ordered_pages_unpadded(pages, sets, blank_token) ==
    insert_flyleafs(pages, sets, blank_token)

build_ordered_pages(pages, sets, blank_token) ==
    LET with_flyleafs == insert_flyleafs(pages, sets, blank_token)
    IN IF with_flyleafs.raised THEN with_flyleafs
       ELSE Return(pad_to_multiple_of_four(with_flyleafs.value, blank_token))

pick_from_mapping(quartet, mapping) ==
    LET left_pos == mapping[1]
        right_pos == mapping[2]
    IN <<PyIndex(quartet, left_pos - 1), PyIndex(quartet, right_pos - 1)>>

\* mutant: the last position of the quartet reads signature[-(start + 1)] again
sheet_quartet_repeats(signature, sheet_index) ==
    LET start == sheet_index * 2
        left_inner == PyIndex(signature, start + 1)
        right_outer == PyIndex(signature, start)
        left_outer == PyIndex(signature, -(start + 1))
        right_inner == PyIndex(signature, -(start + 1))
    IN <<left_inner, right_outer, left_outer, right_inner>>

\* mutant: the quartet assembled with its first two positions exchanged
sheet_quartet_reordered(signature, sheet_index) ==
    LET start == sheet_index * 2
        left_inner == PyIndex(signature, start + 1)
        right_outer == PyIndex(signature, start)
        left_outer == PyIndex(signature, -(start + 1))
        right_inner == PyIndex(signature, -(start + 2))
    IN <<right_outer, left_inner, left_outer, right_inner>>

sheet_quartet(signature, sheet_index) ==
    LET start == sheet_index * 2
        left_inner == PyIndex(signature, start + 1)
        right_outer == PyIndex(signature, start)
        left_outer == PyIndex(signature, -(start + 1))
        right_inner == PyIndex(signature, -(start + 2))
    IN <<left_inner, right_outer, left_outer, right_inner>>

\* the two sides impose_signature appends for one sheet
sheet_sides(signature, sheet_index, back_mapping) ==
    LET quartet == sheet_quartet(signature, sheet_index)
        front == pick_from_mapping(quartet, FOLIO_FRONT_MAPPING)
        back == pick_from_mapping(quartet, back_mapping)
    IN << ImposedSide("front", front[1], front[2]),
          ImposedSide("back", back[1], back[2]) >>

\* mutant: the loop stops one sheet early
RECURSIVE impose_sheets_short(_, _, _, _)
impose_sheets_short(signature, sheet_index, sheets, back_mapping) ==
    IF sheet_index + 1 >= sheets THEN <<>>
    ELSE sheet_sides(signature, sheet_index, back_mapping)
         \o impose_sheets_short(signature, sheet_index + 1, sheets, back_mapping)

\* the loop of impose_signature from sheet_index on
RECURSIVE impose_sheets(_, _, _, _)
impose_sheets(signature, sheet_index, sheets, back_mapping) ==
    IF sheet_index >= sheets THEN <<>>
    ELSE sheet_sides(signature, sheet_index, back_mapping)
         \o impose_sheets(signature, sheet_index + 1, sheets, back_mapping)

\* mutant: the empty signature is rejected too
impose_signature_rejects_empty(signature, rotate) ==
    IF Len(signature) % 4 # 0 \/ Len(signature) = 0
    THEN Raise("ValueError", "signature length must be divisible by 4")
    ELSE LET sheets == Len(signature) \div 4
             back_mapping == IF rotate THEN FOLIO_BACK_ROTATE_MAPPING
                             ELSE FOLIO_BACK_MAPPING
         IN Return(impose_sheets(signature, 0, sheets, back_mapping))

\* mutant: the back mapping does not depend on duplex_rotate
impose_signature_never_rotates(signature, rotate) ==
    IF Len(signature) % 4 # 0
    THEN Raise("ValueError", "signature length must be divisible by 4")
    ELSE LET sheets == Len(signature) \div 4
         IN Return(impose_sheets(signature, 0, sheets, FOLIO_BACK_MAPPING))

\* mutant: the length check accepts every even length
impose_signature_even(signature, rotate) ==
    IF Len(signature) % 2 # 0
    THEN Raise("ValueError", "signature length must be divisible by 4")
    ELSE LET sheets == Len(signature) \div 4
             back_mapping == IF rotate THEN FOLIO_BACK_ROTATE_MAPPING
                             ELSE FOLIO_BACK_MAPPING
         IN Return(impose_sheets(signature, 0, sheets, back_mapping))

impose_signature(signature, rotate) ==
    IF Len(signature) % 4 # 0
    THEN Raise("ValueError", "signature length must be divisible by 4")
    ELSE LET sheets == Len(signature) \div 4
             back_mapping == IF rotate THEN FOLIO_BACK_ROTATE_MAPPING
                             ELSE FOLIO_BACK_MAPPING
         IN Return(impose_sheets(signature, 0, sheets, back_mapping))

\* mutant: each signature's sides are put in front of the output
RECURSIVE impose_signatures_prepending(_, _, _, _)
impose_signatures_prepending(sigs, index, sides_so_far, rotate) ==
    IF index >= Len(sigs) THEN Return(sides_so_far)
    ELSE LET sides == impose_signature(PyIndex(sigs, index), rotate)
         IN IF sides.raised THEN sides
            ELSE impose_signatures_prepending(sigs, index + 1,
                     sides.value \o sides_so_far, rotate)

\* the loop of impose_signatures from signature index on
RECURSIVE impose_signatures_from(_, _, _, _)
impose_signatures_from(sigs, index, sides_so_far, rotate) ==
    IF index >= Len(sigs) THEN Return(sides_so_far)
    ELSE LET sides == impose_signature(PyIndex(sigs, index), rotate)
         IN IF sides.raised THEN sides
            ELSE impose_signatures_from(sigs, index + 1,
                     sides_so_far \o sides.value, rotate)

impose_signatures(sigs, rotate) == impose_signatures_from(sigs, 0, <<>>, rotate)

----------------------------------------------------------------------------
(* core.py: the list objects                                                *)
(* The same functions, on references: each takes the heap and the           *)
(* references of its list arguments and gives the heap after the call and   *)
(* the reference of the list it returns.  A list the code builds is a new   *)
(* object; list.extend and list.append change the object they are called on.*)

\* a new list object
Allocate(objects, value) == Append(objects, value)

Returned(objects, ref) == [raised |-> FALSE, heap |-> objects, ref |-> ref]
Raised(objects) == [raised |-> TRUE, heap |-> objects, ref |-> 0]

\* front_blanks, back_blanks and the returned [*front_blanks, *source_pages,
\* *back_blanks] are new lists
insert_flyleafs_on(objects, pages_ref, sets, blank_token) ==
    IF sets < 0 THEN Raised(objects)
    ELSE LET blanks_per_edge == sets * 2
             front_blanks == Allocate(objects, Repeat(blank_token, blanks_per_edge))
             back_blanks == Allocate(front_blanks, Repeat(blank_token, blanks_per_edge))
             result == Allocate(back_blanks,
                                Repeat(blank_token, blanks_per_edge)
                                \o objects[pages_ref]
                                \o Repeat(blank_token, blanks_per_edge))
         IN Returned(result, Len(result))

\* mutant: padded is the caller's list itself (padded = pages)
pad_to_multiple_of_four_on_aliased(objects, pages_ref, blank_token) ==
    LET padded == pages_ref
        remainder == Len(objects[padded]) % 4
    IN IF remainder = 0
       THEN Returned(objects, padded)
       ELSE LET padding == 4 - remainder
                blanks == Allocate(objects, Repeat(blank_token, padding))
            IN Returned([blanks EXCEPT ![padded] = @ \o Repeat(blank_token, padding)],
                        padded)

\* padded = list(pages) is a new list; padded.extend(...) changes padded
pad_to_multiple_of_four_on(objects, pages_ref, blank_token) ==
    LET copied == Allocate(objects, objects[pages_ref])
        padded == Len(copied)
        remainder == Len(copied[padded]) % 4
    IN IF remainder = 0
       THEN Returned(copied, padded)
       ELSE LET padding == 4 - remainder
                blanks == Allocate(copied, Repeat(blank_token, padding))
            IN Returned([blanks EXCEPT ![padded] = @ \o Repeat(blank_token, padding)],
                        padded)

build_ordered_pages_on(objects, pages_ref, sets, blank_token) ==
    LET with_flyleafs == insert_flyleafs_on(objects, pages_ref, sets, blank_token)
    IN IF with_flyleafs.raised THEN with_flyleafs
       ELSE pad_to_multiple_of_four_on(with_flyleafs.heap, with_flyleafs.ref,
                                       blank_token)

\* the objects with every sequence of chunks added as a new list
RECURSIVE AllocateAll(_, _)
AllocateAll(objects, chunks) ==
    IF chunks = <<>> THEN objects
    ELSE AllocateAll(Allocate(objects, Head(chunks)), Tail(chunks))

\* pages = list(ordered_pages) is a new list, and so is every slice of it;
\* ref is the list of the references of the signatures
split_signatures_on(objects, ordered_ref, sheets) ==
    LET per_signature == pages_per_signature(sheets)
    IN IF per_signature.raised THEN Raised(objects)
       ELSE LET copied == Allocate(objects, objects[ordered_ref])
                pages == copied[Len(copied)]
            IN IF Len(pages) % 4 # 0 THEN Raised(copied)
               ELSE LET starts == PyRange(0, Len(pages), per_signature.value)
                        chunks == [j \in 1..Len(starts) |->
                                      PySlice(pages, starts[j],
                                              starts[j] + per_signature.value)]
                        sliced == AllocateAll(copied, chunks)
                    IN IF \E j \in 1..Len(chunks) : Len(chunks[j]) % 4 # 0
                       THEN Raised(sliced)
                       ELSE Returned(sliced,
                                     [j \in 1..Len(chunks) |-> Len(copied) + j])

\* sides = [] is a new list, filled by sides.append; the signature is read
\* by index only
impose_signature_on(objects, signature_ref, rotate) ==
    LET sides == impose_signature(objects[signature_ref], rotate)
    IN IF sides.raised THEN Raised(objects)
       ELSE LET appended == Allocate(objects, sides.value)
            IN Returned(appended, Len(appended))

\* the loop of impose_signatures: output.extend changes output
RECURSIVE impose_signatures_on_from(_, _, _, _, _)
impose_signatures_on_from(objects, signature_refs, index, output_ref, rotate) ==
    IF index >= Len(signature_refs) THEN Returned(objects, output_ref)
    ELSE LET sides == impose_signature_on(objects, PyIndex(signature_refs, index),
                                          rotate)
         IN IF sides.raised THEN sides
            ELSE impose_signatures_on_from(
                     [sides.heap EXCEPT ![output_ref] = @ \o sides.heap[sides.ref]],
                     signature_refs, index + 1, output_ref, rotate)

\* output = [] is a new list
impose_signatures_on(objects, signature_refs, rotate) ==
    LET allocated == Allocate(objects, <<>>)
    IN impose_signatures_on_from(allocated, signature_refs, 0, Len(allocated), rotate)

\* the objects after the loop of write_first_sheet_preview, which imposes
\* the signatures up to the first one that has sides
RECURSIVE first_side_on(_, _, _, _)
first_side_on(objects, signature_refs, index, rotate) ==
    IF index >= Len(signature_refs) THEN objects
    ELSE LET sides == impose_signature_on(objects, PyIndex(signature_refs, index),
                                          rotate)
         IN IF sides.raised THEN objects
            ELSE IF sides.heap[sides.ref] # <<>> THEN sides.heap
            ELSE first_side_on(sides.heap, signature_refs, index + 1, rotate)

----------------------------------------------------------------------------
(* pdf_writer.py *)
(* Only what decides which tokens are placed, and in which order, is        *)
(* modelled: paper_size and positioning_mode are taken to be valid, and the *)
(* slot geometry, the print marks and the file written are left out.        *)

\* mutant: a token that is not an int is skipped like the blank token
place_token_skips_invalid(token, pages, blank_token) ==
    IF token = blank_token THEN Return("blank")
    ELSE IF ~IsInt(token)
    THEN Return("blank")
    ELSE IF token[2] >= pages \/ token[2] < -pages
    THEN Raise("IndexError", "sequence index out of range")
    ELSE Return("merged")

\* "merged": merge_transformed_page was called; "blank": the slot is left alone
place_token(token, pages, blank_token) ==
    IF token = blank_token THEN Return("blank")
    ELSE IF ~IsInt(token)
    THEN Raise("ValueError", "expected int page token or blank token")
    ELSE IF token[2] >= pages \/ token[2] < -pages
    THEN Raise("IndexError", "sequence index out of range")
    ELSE Return("merged")

\* the merge_transformed_page calls of the two _place_token calls of a side
merges(side, left, right) ==
    (IF left.value = "merged" THEN <<side.left>> ELSE <<>>)
    \o (IF right.value = "merged" THEN <<side.right>> ELSE <<>>)

\* mutant: a side whose two slots are blank gets no output page
RECURSIVE place_sides_skips_blank(_, _, _, _, _)
place_sides_skips_blank(sides, side_index, writer, pages, blank_token) ==
    IF side_index >= Len(sides) THEN Return(writer)
    ELSE LET side == PyIndex(sides, side_index)
             added == [writer EXCEPT !.pages = @ + 1]
             left == place_token(side.left, pages, blank_token)
             right == place_token(side.right, pages, blank_token)
         IN IF left.raised THEN left
            ELSE IF right.raised THEN right
            ELSE IF side.left = blank_token /\ side.right = blank_token
            THEN place_sides_skips_blank(sides, side_index + 1, writer,
                                         pages, blank_token)
            ELSE place_sides_skips_blank(sides, side_index + 1,
                     [added EXCEPT !.placed_tokens = Append(@, <<side.left, side.right>>),
                                   !.merged = @ \o merges(side, left, right)],
                     pages, blank_token)

\* mutant: the pair is recorded as (right, left)
RECURSIVE place_sides_swapped(_, _, _, _, _)
place_sides_swapped(sides, side_index, writer, pages, blank_token) ==
    IF side_index >= Len(sides) THEN Return(writer)
    ELSE LET side == PyIndex(sides, side_index)
             added == [writer EXCEPT !.pages = @ + 1]
             left == place_token(side.left, pages, blank_token)
             right == place_token(side.right, pages, blank_token)
         IN IF left.raised THEN left
            ELSE IF right.raised THEN right
            ELSE place_sides_swapped(sides, side_index + 1,
                     [added EXCEPT !.placed_tokens = Append(@, <<side.right, side.left>>),
                                   !.merged = @ \o merges(side, left, right)],
                     pages, blank_token)

\* the inner loop of write_duplex_aggregated_pdf over the sides of one
\* signature, from side_index on; writer = [pages, placed_tokens, merged]
RECURSIVE place_sides(_, _, _, _, _)
place_sides(sides, side_index, writer, pages, blank_token) ==
    IF side_index >= Len(sides) THEN Return(writer)
    ELSE LET side == PyIndex(sides, side_index)
             added == [writer EXCEPT !.pages = @ + 1]
             left == place_token(side.left, pages, blank_token)
             right == place_token(side.right, pages, blank_token)
         IN IF left.raised THEN left
            ELSE IF right.raised THEN right
            ELSE place_sides(sides, side_index + 1,
                     [added EXCEPT !.placed_tokens = Append(@, <<side.left, side.right>>),
                                   !.merged = @ \o merges(side, left, right)],
                     pages, blank_token)

\* the loop of write_first_sheet_preview: the first side of the first
\* signature that has sides, <<>> for None
RECURSIVE first_side_from(_, _, _)
first_side_from(sigs, index, rotate) ==
    IF index >= Len(sigs) THEN Return(<<>>)
    ELSE LET sides == impose_signature(PyIndex(sigs, index), rotate)
         IN IF sides.raised THEN sides
            ELSE IF sides.value # <<>> THEN Return(<<PyIndex(sides.value, 0)>>)
            ELSE first_side_from(sigs, index + 1, rotate)

\* the PreviewArtifact, with the merges made on its one page
write_first_sheet_preview(pages, sigs, rotate, blank_token) ==
    LET first_side == first_side_from(sigs, 0, rotate)
    IN IF first_side.raised THEN first_side
       ELSE IF first_side.value = <<>>
       THEN Raise("ValueError", "cannot generate preview for an empty imposed document")
       ELSE LET side == first_side.value[1]
                left == place_token(side.left, pages, blank_token)
                right == place_token(side.right, pages, blank_token)
            IN IF left.raised THEN left
               ELSE IF right.raised THEN right
               ELSE Return([page_count |-> 1,
                            placed_tokens |-> <<side.left, side.right>>,
                            merged |-> merges(side, left, right)])

\* the outer loop of write_duplex_aggregated_pdf over the signatures, from
\* signature_index on
RECURSIVE write_signatures_from(_, _, _, _, _, _)
write_signatures_from(sigs, signature_index, writer, pages, rotate, blank_token) ==
    IF signature_index >= Len(sigs) THEN Return(writer)
    ELSE LET sides == impose_signature(PyIndex(sigs, signature_index), rotate)
         IN IF sides.raised THEN sides
            ELSE LET placed == place_sides(sides.value, 0, writer, pages,
                                           blank_token)
                 IN IF placed.raised THEN placed
                    ELSE write_signatures_from(sigs, signature_index + 1,
                                               placed.value, pages, rotate,
                                               blank_token)

\* the GeneratedArtifact of one call of write_duplex_aggregated_pdf
write_duplex_aggregated_pdf(pages, sigs, rotate, blank_token) ==
    LET written == write_signatures_from(sigs, 0,
                       [pages |-> 0, placed_tokens |-> <<>>, merged |-> <<>>],
                       pages, rotate, blank_token)
    IN IF written.raised THEN written
       ELSE Return([page_count |-> written.value.pages,
                    placed_tokens |-> written.value.placed_tokens])

\* GeneratedArtifact returned by write_duplex_aggregated_pdf
GeneratedArtifact == [page_count |-> writer_pages, placed_tokens |-> placed_tokens]

----------------------------------------------------------------------------
(* Arguments of the calls *)

\* list(range(n))
SourcePages(n) == [j \in 1..n |-> IntToken(j - 1)]

DirectTokens == {IntToken(0), IntToken(1), BLANK_PAGE}

SeqsUpTo(S, n) == UNION {[1..k -> S] : k \in 0..n}

\* tokens of the directly handed lists of two signatures
PairTokens == {IntToken(0), BLANK_PAGE}

\* a page index, the blank token, a token that is neither, and an index
\* past the last page of the reader
RenderTokens == {IntToken(0), BLANK_PAGE, StrToken("bad"), IntToken(DirectReaderPages)}

\* the lists of signatures handed directly to the imposition functions
DirectSignatureLists ==
    {<<>>}
    \cup {<<signature>> : signature \in SeqsUpTo(DirectTokens, MaxDirectSignature)}
    \cup {<<signature>> : signature \in SeqsUpTo(RenderTokens, MaxRenderSignature)}
    \cup {<<first, second>> : first \in SeqsUpTo(PairTokens, MaxDirectPair),
                              second \in SeqsUpTo(PairTokens, MaxDirectPair)}

SheetChoices == -1..MaxSheets
FlyleafChoices == -1..MaxFlyleafSets

----------------------------------------------------------------------------
(* web/app.py *)
(* A str is the sequence of its characters.  The artifact directory is the  *)
(* set of its children, each a record [name, is_dir, st_mtime, files]:      *)
(* files holds the names of the files of a directory and is empty for a     *)
(* file.  The file system is the server's alone and does what it is asked.  *)

\* str.__contains__ for one character
Contains(string, character) == \E i \in 1..Len(string) : string[i] = character

\* the position of the first occurrence of character in string
Find(string, character) ==
    CHOOSE i \in 1..Len(string) :
        /\ string[i] = character
        /\ \A j \in 1..(i - 1) : string[j] # character

\* string.split(separator) for a one-character separator
RECURSIVE split(_, _)
split(string, separator) ==
    IF ~Contains(string, separator) THEN <<string>>
    ELSE Assign(Find(string, separator), LAMBDA i :
         Assign(SubSeq(string, i + 1, Len(string)), LAMBDA rest :
             <<SubSeq(string, 1, i - 1)>> \o split(rest, separator)))

\* PurePosixPath(path).parts without the root: the components between
\* slashes, the empty ones and the "." ones dropped
path_parts(path) ==
    SelectSeq(split(path, "/"), LAMBDA part : part \notin {<<>>, <<".">>})

\* Path(path).name
path_name(path) ==
    Assign(path_parts(path), LAMBDA parts :
        IF parts = <<>> THEN <<>> ELSE parts[Len(parts)])

\* the characters of [a-f0-9]
HexCharacters ==
    {"a", "b", "c", "d", "e", "f",
     "0", "1", "2", "3", "4", "5", "6", "7", "8", "9"}

\* the repeat count of _REQUEST_ID_PATTERN
RequestIdLength == 32

\* _REQUEST_ID_PATTERN.fullmatch(request_id) is not None
request_id_matches(request_id) ==
    /\ Len(request_id) = RequestIdLength
    /\ \A i \in 1..Len(request_id) : request_id[i] \in HexCharacters

\* raise HTTPException(status_code=..., detail=...)
HTTPException(status_code, detail) ==
    [raised |-> TRUE, status_code |-> status_code, detail |-> detail,
     value |-> <<>>]

\* a value returned by a web function
Returns(value) ==
    [raised |-> FALSE, status_code |-> 0, detail |-> "", value |-> value]

EXPIRED_ARTIFACT_MESSAGE ==
    "This download link has expired after cleanup. Regenerate the PDF to create a new link."

validated_filename(filename) ==
    IF Contains(filename, "\\")
    THEN HTTPException(400, "Invalid filename")
    ELSE Assign(path_name(filename), LAMBDA safe_name :
             IF safe_name # filename \/ safe_name \in {<<>>, <<".">>, <<".", ".">>}
             THEN HTTPException(400, "Invalid filename")
             ELSE Returns(safe_name))

\* (artifact_dir / name).is_dir()
is_dir(children, name) ==
    \E child \in children : child.name = name /\ child.is_dir

\* (artifact_dir / name / file_name).is_file()
is_file(children, name, file_name) ==
    \E child \in children :
        child.name = name /\ child.is_dir /\ file_name \in child.files

\* mutant: the request directory is looked for before the filename is validated
resolve_request_artifact_path_directory_first(children, request_id, filename) ==
    IF ~request_id_matches(request_id)
    THEN HTTPException(400, "Invalid request id")
    ELSE IF ~is_dir(children, request_id)
    THEN HTTPException(410, EXPIRED_ARTIFACT_MESSAGE)
    ELSE Assign(validated_filename(filename), LAMBDA safe_name :
             IF safe_name.raised THEN safe_name
             ELSE IF ~is_file(children, request_id, safe_name.value)
             THEN HTTPException(404, "File not found")
             ELSE Returns(<<request_id, safe_name.value>>))

\* the path returned is artifact_dir / request_id / safe_name, written
\* <<request_id, safe_name>>
resolve_request_artifact_path(children, request_id, filename) ==
    IF ~request_id_matches(request_id)
    THEN HTTPException(400, "Invalid request id")
    ELSE Assign(validated_filename(filename), LAMBDA safe_name :
             IF safe_name.raised THEN safe_name
             ELSE IF ~is_dir(children, request_id)
             THEN HTTPException(410, EXPIRED_ARTIFACT_MESSAGE)
             ELSE IF ~is_file(children, request_id, safe_name.value)
             THEN HTTPException(404, "File not found")
             ELSE Returns(<<request_id, safe_name.value>>))

\* mutant: a child as old as the cutoff is stale too
cleanup_stale_artifacts_inclusive(children, retention_seconds, current_time) ==
    IF retention_seconds < 0 THEN [removed |-> 0, children |-> children]
    ELSE LET cutoff == current_time - retention_seconds
             stale == {child \in children : child.st_mtime <= cutoff}
         IN [removed |-> Cardinality(stale), children |-> children \ stale]

\* the number removed and the children left; shutil.rmtree takes a
\* directory with its files, Path.unlink a file
cleanup_stale_artifacts(children, retention_seconds, current_time) ==
    IF retention_seconds < 0 THEN [removed |-> 0, children |-> children]
    ELSE LET cutoff == current_time - retention_seconds
             stale == {child \in children : child.st_mtime < cutoff}
         IN [removed |-> Cardinality(stale), children |-> children \ stale]

\* the characters of [A-Z] and of [a-z], in order
UpperCase ==
    <<"A", "B", "C", "D", "E", "F", "G", "H", "I", "J", "K", "L", "M",
      "N", "O", "P", "Q", "R", "S", "T", "U", "V", "W", "X", "Y", "Z">>
LowerCase ==
    <<"a", "b", "c", "d", "e", "f", "g", "h", "i", "j", "k", "l", "m",
      "n", "o", "p", "q", "r", "s", "t", "u", "v", "w", "x", "y", "z">>
Digits == <<"0", "1", "2", "3", "4", "5", "6", "7", "8", "9">>

\* the characters of [A-Za-z0-9]
AlphaNumeric ==
    {UpperCase[i] : i \in 1..Len(UpperCase)}
    \cup {LowerCase[i] : i \in 1..Len(LowerCase)}
    \cup {Digits[i] : i \in 1..Len(Digits)}

\* str.lower() of a string of ASCII characters
lower(string) ==
    [i \in 1..Len(string) |->
        IF \E j \in 1..Len(UpperCase) : UpperCase[j] = string[i]
        THEN LowerCase[CHOOSE j \in 1..Len(UpperCase) : UpperCase[j] = string[i]]
        ELSE string[i]]

\* str.strip(characters), str.strip() for characters = {" "}
strip(string, characters) ==
    LET kept == {i \in 1..Len(string) : string[i] \notin characters}
    IN IF kept = {} THEN <<>>
       ELSE SubSeq(string,
                   CHOOSE i \in kept : \A j \in kept : i <= j,
                   CHOOSE i \in kept : \A j \in kept : i >= j)

\* re.sub(r"[^A-Za-z0-9]+", "_", string): every run of other characters
\* becomes one underscore
RECURSIVE sub_non_alphanumeric(_)
sub_non_alphanumeric(string) ==
    IF string = <<>> THEN <<>>
    ELSE Assign(Tail(string), LAMBDA rest :
             IF string[1] \in AlphaNumeric
             THEN <<string[1]>> \o sub_non_alphanumeric(rest)
             ELSE IF rest # <<>> /\ rest[1] \notin AlphaNumeric
             THEN sub_non_alphanumeric(rest)
             ELSE <<"_">> \o sub_non_alphanumeric(rest))

\* Path(name).stem of a name without separators: the name up to its last
\* dot, when that dot is neither its first nor its last character
path_stem(name) ==
    LET dots == {i \in 1..Len(name) : name[i] = "."}
        last == CHOOSE i \in dots : \A j \in dots : i >= j
    IN IF dots = {} THEN name
       ELSE IF 1 < last /\ last < Len(name) THEN SubSeq(name, 1, last - 1)
       ELSE name

\* str.removesuffix(suffix)
removesuffix(string, suffix) ==
    IF /\ Len(string) >= Len(suffix)
       /\ SubSeq(string, Len(string) - Len(suffix) + 1, Len(string)) = suffix
    THEN SubSeq(string, 1, Len(string) - Len(suffix))
    ELSE string

\* str(number) of a number that is not negative
RECURSIVE str(_)
str(number) ==
    IF number < 10 THEN <<Digits[number + 1]>>
    ELSE str(number \div 10) \o <<Digits[(number % 10) + 1]>>

\* the slug of deterministic_output_filename and
\* deterministic_preview_filename
filename_slug(source_name) ==
    Assign(path_name(source_name), LAMBDA name :
    Assign(path_stem(name), LAMBDA whole_stem :
    Assign(strip(whole_stem, {" "}), LAMBDA stripped :
    Assign(IF stripped = <<>> THEN <<"o", "u", "t", "p", "u", "t">>
           ELSE stripped, LAMBDA stem :
    Assign(sub_non_alphanumeric(stem), LAMBDA substituted :
    Assign(strip(substituted, {"_"}), LAMBDA cased :
    Assign(lower(cased), LAMBDA slug :
        IF slug = <<>> THEN <<"o", "u", "t", "p", "u", "t">> ELSE slug)))))))

\* "_imposed_duplex"
IMPOSED_DUPLEX ==
    <<"_", "i", "m", "p", "o", "s", "e", "d", "_", "d", "u", "p", "l", "e", "x">>

\* ".pdf"
PDF == <<".", "p", "d", "f">>

deterministic_output_filename(source_name) ==
    filename_slug(source_name) \o IMPOSED_DUPLEX \o PDF

deterministic_preview_filename(source_name) ==
    filename_slug(source_name)
    \o <<"_", "p", "r", "e", "v", "i", "e", "w", "_", "s", "h", "e", "e", "t", "1">>
    \o PDF

\* f"{output_slug}_signature{signature_index}_duplex.pdf"
signature_filename(output_slug, signature_index) ==
    output_slug
    \o <<"_", "s", "i", "g", "n", "a", "t", "u", "r", "e">>
    \o str(signature_index)
    \o <<"_", "d", "u", "p", "l", "e", "x">> \o PDF

\* f"/download/{request_id}/{filename}"
download_url(request_id, filename) ==
    <<"/", "d", "o", "w", "n", "l", "o", "a", "d", "/">>
    \o request_id \o <<"/">> \o filename

\* the keys of PAPER_SIZES
PAPER_SIZES == {"A3", "A4", "A5", "Legal", "Letter", "Tabloid"}

\* The renderer the web application calls takes custom_dimensions beside
\* paper_size; the functions of pdf_writer.py take paper_size alone.  The
\* paper the renderer uses is modelled from the calls of _impose_payload and
\* from the uploads its tests expect to succeed: the custom dimensions when
\* they are given, the named size otherwise.
resolve_paper_dimensions(paper_size, custom_dimensions) ==
    IF custom_dimensions # <<>> THEN Return(custom_dimensions)
    ELSE IF paper_size \in PAPER_SIZES THEN Return(<<paper_size>>)
    ELSE Raise("ValueError", "unsupported paper size")

\* write_first_sheet_preview(..., paper_size=..., custom_dimensions=...)
write_first_sheet_preview_on_paper(pages, sigs, options, custom_dimensions) ==
    LET paper == resolve_paper_dimensions(options.paper_size, custom_dimensions)
    IN IF paper.raised THEN paper
       ELSE write_first_sheet_preview(pages, sigs, options.duplex_rotate,
                                      BLANK_PAGE)

\* write_duplex_aggregated_pdf(..., paper_size=..., custom_dimensions=...)
write_duplex_aggregated_pdf_on_paper(pages, sigs, options, custom_dimensions) ==
    LET paper == resolve_paper_dimensions(options.paper_size, custom_dimensions)
    IN IF paper.raised THEN paper
       ELSE write_duplex_aggregated_pdf(pages, sigs, options.duplex_rotate,
                                        BLANK_PAGE)

\* return result, None
ImposeResult(result) == Return([result |-> <<result>>, error |-> <<>>])

\* return None, message; a message is the sequence of its parts
ImposeError(message) == Return([result |-> <<>>, error |-> <<message>>])

\* one entry of generated_downloads
Download(request_id, filename, artifact) ==
    [download_url |-> download_url(request_id, filename),
     output_filename |-> filename,
     output_pages |-> artifact.page_count]

\* The try block of _impose_payload makes its writes in order and stops at
\* the first that raises.  A write is the name of its file, whether it is
\* entered in generated_downloads, and the outcome of the renderer.

\* mutant: the aggregated file is written for every output mode
attempted_writes_always_aggregated(request) ==
    <<[filename |-> request.preview_name, download |-> FALSE,
       artifact |-> write_first_sheet_preview_on_paper(request.reader_pages,
                        request.signatures, request.options,
                        request.custom_dimensions)]>>
    \o <<[filename |-> request.output_name, download |-> TRUE,
          artifact |-> write_duplex_aggregated_pdf_on_paper(
                           request.reader_pages, request.signatures,
                           request.options, request.custom_dimensions)]>>
    \o (IF request.options.output_mode \in {"signatures", "both"}
        THEN [j \in 1..Len(request.signatures) |->
                 [filename |-> signature_filename(request.output_slug, j - 1),
                  download |-> TRUE,
                  artifact |-> write_duplex_aggregated_pdf_on_paper(
                                   request.reader_pages,
                                   <<request.signatures[j]>>,
                                   request.options, request.custom_dimensions)]]
        ELSE <<>>)

\* the writes the try block makes when none raises: the preview, the
\* aggregated file, and one file per signature, signature_index = j - 1
attempted_writes(request) ==
    <<[filename |-> request.preview_name, download |-> FALSE,
       artifact |-> write_first_sheet_preview_on_paper(request.reader_pages,
                        request.signatures, request.options,
                        request.custom_dimensions)]>>
    \o (IF request.options.output_mode \in {"aggregated", "both"}
        THEN <<[filename |-> request.output_name, download |-> TRUE,
                artifact |-> write_duplex_aggregated_pdf_on_paper(
                                 request.reader_pages, request.signatures,
                                 request.options, request.custom_dimensions)]>>
        ELSE <<>>)
    \o (IF request.options.output_mode \in {"signatures", "both"}
        THEN [j \in 1..Len(request.signatures) |->
                 [filename |-> signature_filename(request.output_slug, j - 1),
                  download |-> TRUE,
                  artifact |-> write_duplex_aggregated_pdf_on_paper(
                                   request.reader_pages,
                                   <<request.signatures[j]>>,
                                   request.options, request.custom_dimensions)]]
        ELSE <<>>)

\* sum(numbers)
RECURSIVE sum(_)
sum(numbers) ==
    IF numbers = <<>> THEN 0 ELSE Head(numbers) + sum(Tail(numbers))

\* the try block: exception is <<>> or <<the exception raised>>, files the
\* names of the files written into the request directory
generated(request) ==
    Assign(attempted_writes(request), LAMBDA writes :
    Assign({i \in 1..Len(writes) : writes[i].artifact.raised}, LAMBDA raising :
    Assign(IF raising = {} THEN Len(writes) + 1
           ELSE CHOOSE i \in raising : \A j \in raising : i <= j,
           LAMBDA first_raising :
    Assign(SubSeq(writes, 1, first_raising - 1), LAMBDA completed :
    Assign(SelectSeq(completed, LAMBDA write : write.download), LAMBDA entered :
       [exception |-> IF raising = {} THEN <<>>
                      ELSE <<writes[first_raising].artifact>>,
        preview_artifact |-> IF completed = <<>> THEN <<>>
                             ELSE <<completed[1].artifact.value>>,
        generated_downloads |->
            [j \in 1..Len(entered) |->
                Download(request.request_id, entered[j].filename,
                         entered[j].artifact.value)],
        total_output_pages |->
            sum([j \in 1..Len(entered) |-> entered[j].artifact.value.page_count]),
        files |-> {completed[j].filename : j \in 1..Len(completed)}])))))

\* the children of the artifact directory once the request directory holds
\* files; no directory is made when no file was written
with_request_dir(children, request_id, files, current_time) ==
    IF files = {} THEN children
    ELSE children \cup {[name |-> request_id, is_dir |-> TRUE,
                         st_mtime |-> current_time, files |-> files]}

\* the children of the artifact directory after the call, and what the call
\* returned or raised; uuid4_hex is the value of uuid4().hex
impose_payload(payload, source_name, options, children, artifact_retention_seconds, current_time, uuid4_hex) ==
    IF payload.kind = "empty"
    THEN [children |-> children,
          outcome |-> ImposeError(<<"The uploaded file is empty.">>)]
    ELSE IF payload.kind = "unreadable"
    THEN [children |-> children,
          outcome |-> ImposeError(<<"The upload could not be parsed as a PDF. Verify the file is a valid, non-corrupted PDF and retry.">>)]
    ELSE IF payload.kind = "encrypted"
    THEN [children |-> children,
          outcome |-> ImposeError(<<"Encrypted PDFs are not supported for MVP. Remove encryption and retry.">>)]
    ELSE
    Assign(build_ordered_pages(SourcePages(payload.pages), options.flyleafs,
                               BLANK_PAGE), LAMBDA ordered :
    IF ordered.raised THEN [children |-> children, outcome |-> ordered]
    ELSE
    Assign(split_signatures(ordered.value, options.signature_length), LAMBDA sigs :
    IF sigs.raised THEN [children |-> children, outcome |-> sigs]
    ELSE
    Assign(cleanup_stale_artifacts(children, artifact_retention_seconds,
                                   current_time), LAMBDA cleaned :
    Assign(deterministic_output_filename(source_name), LAMBDA output_name :
    Assign(path_name(output_name), LAMBDA output_basename :
    Assign(removesuffix(path_stem(output_basename), IMPOSED_DUPLEX), LAMBDA output_slug :
    Assign(deterministic_preview_filename(source_name), LAMBDA preview_name :
    Assign([reader_pages |-> payload.pages,
            signatures |-> sigs.value,
            options |-> options,
            request_id |-> uuid4_hex,
            output_name |-> output_name,
            output_slug |-> output_slug,
            preview_name |-> preview_name,
            custom_dimensions |->
                IF \/ options.custom_width_points = <<>>
                   \/ options.custom_height_points = <<>>
                THEN <<>>
                ELSE <<options.custom_width_points[1],
                       options.custom_height_points[1]>>], LAMBDA request :
    Assign(generated(request), LAMBDA job :
       [children |-> with_request_dir(cleaned.children, uuid4_hex,
                                      job.files, current_time),
        outcome |->
            IF job.exception # <<>>
            THEN IF job.exception[1].type = "ValueError"
                 THEN ImposeError(<<"Unsupported options for imposition: ",
                                    job.exception[1].message, ".">>)
                 ELSE ImposeError(<<"Imposition failed unexpectedly. Retry and check server logs for the associated job.">>)
            ELSE Assign(PyIndex(job.generated_downloads, 0), LAMBDA first_output :
                    ImposeResult(
                        [status |-> "success",
                         output_mode |-> options.output_mode,
                         download_url |-> first_output.download_url,
                         output_filename |-> first_output.output_filename,
                         output_pages |-> job.total_output_pages,
                         output_count |-> Len(job.generated_downloads),
                         downloads |-> job.generated_downloads,
                         preview_download_url |-> download_url(uuid4_hex, preview_name),
                         preview_filename |-> preview_name,
                         preview_pages |-> job.preview_artifact[1].page_count,
                         placed_tokens |-> job.preview_artifact[1].placed_tokens]))]
    )))))))))

----------------------------------------------------------------------------
(* The state machine *)

InitLocals ==
    /\ build_with_flyleafs = <<>>
    /\ split_per_signature = Return(0)
    /\ imposed = <<>>
    /\ output = <<>>
    /\ merged_pages = <<>>
    /\ preview = <<>>
    /\ writer_pages = 0
    /\ placed_tokens = <<>>
    /\ error = NoError

NoRefs == [source_pages |-> 0, with_flyleafs |-> 0, ordered_pages |-> 0,
           signatures |-> <<>>, sides |-> <<>>, output |-> 0]

\* the caller runs the whole pipeline on a document of n pages
InitPipeline ==
    /\ entry = "build_ordered_pages"
    /\ pc = "start"
    /\ \E n \in 0..MaxPages : source_pages = SourcePages(n) /\ reader_pages = n
    /\ flyleaf_sets \in FlyleafChoices
    /\ sig_length_sheets \in SheetChoices
    /\ duplex_rotate \in BOOLEAN
    /\ ordered_pages = <<>>
    /\ signatures = <<>>
    /\ heap = <<source_pages>>
    /\ refs = [NoRefs EXCEPT !.source_pages = 1]
    /\ InitLocals

\* the caller hands its own token sequence to build_ordered_pages
InitBuild ==
    /\ entry = "build_ordered_pages"
    /\ pc = "start"
    /\ source_pages \in SeqsUpTo(DirectTokens, MaxDirectSource)
    /\ reader_pages = DirectReaderPages
    /\ flyleaf_sets \in FlyleafChoices
    /\ sig_length_sheets \in SheetChoices
    /\ duplex_rotate \in BOOLEAN
    /\ ordered_pages = <<>>
    /\ signatures = <<>>
    /\ heap = <<source_pages>>
    /\ refs = [NoRefs EXCEPT !.source_pages = 1]
    /\ InitLocals

\* the caller hands its own page sequence to split_signatures
InitSplit ==
    /\ entry = "split_signatures"
    /\ pc = "ordered"
    /\ source_pages = <<>>
    /\ reader_pages = DirectReaderPages
    /\ flyleaf_sets = 0
    /\ sig_length_sheets \in SheetChoices
    /\ duplex_rotate \in BOOLEAN
    /\ ordered_pages \in SeqsUpTo(DirectTokens, MaxDirectPages)
    /\ signatures = <<>>
    /\ heap = <<ordered_pages>>
    /\ refs = [NoRefs EXCEPT !.ordered_pages = 1]
    /\ InitLocals

\* the caller hands its own signatures to write_duplex_aggregated_pdf or
\* to impose_signatures
InitImpose ==
    /\ entry = "write_duplex_aggregated_pdf"
    /\ pc = "split"
    /\ source_pages = <<>>
    /\ reader_pages = DirectReaderPages
    /\ flyleaf_sets = 0
    /\ sig_length_sheets = 1
    /\ duplex_rotate \in BOOLEAN
    /\ ordered_pages = <<>>
    /\ signatures \in DirectSignatureLists
    /\ heap = signatures
    /\ refs = [NoRefs EXCEPT !.signatures = [j \in 1..Len(signatures) |-> j]]
    /\ InitLocals

\* no web function has been called
NoWeb ==
    /\ artifact_dir = {}
    /\ now = 0
    /\ handler = "none"
    /\ arguments = <<>>
    /\ listing = {}
    /\ outcome = <<>>

Init == (InitPipeline \/ InitBuild \/ InitSplit \/ InitImpose) /\ NoWeb

BuildOrderedPages ==
    /\ pc = "start"
    /\ LET flyleafs == insert_flyleafs(source_pages, flyleaf_sets, BLANK_PAGE)
           result == build_ordered_pages(source_pages, flyleaf_sets, BLANK_PAGE)
           flyleafs_on == insert_flyleafs_on(heap, refs.source_pages, flyleaf_sets,
                                             BLANK_PAGE)
           result_on == build_ordered_pages_on(heap, refs.source_pages,
                                               flyleaf_sets, BLANK_PAGE)
       IN /\ heap' = result_on.heap
          /\ IF result.raised
             THEN /\ pc' = "build_failed"
                  /\ error' = ErrorOf(result)
                  /\ UNCHANGED <<build_with_flyleafs, ordered_pages, refs>>
             ELSE /\ pc' = "ordered"
                  /\ build_with_flyleafs' = flyleafs.value
                  /\ ordered_pages' = result.value
                  /\ refs' = [refs EXCEPT !.with_flyleafs = flyleafs_on.ref,
                                          !.ordered_pages = result_on.ref]
                  /\ UNCHANGED error
    /\ UNCHANGED web_vars
    /\ UNCHANGED <<entry, source_pages, flyleaf_sets, sig_length_sheets,
                   duplex_rotate, reader_pages, split_per_signature, signatures,
                   imposed, output, merged_pages, preview, writer_pages,
                   placed_tokens>>

SplitSignatures ==
    /\ pc = "ordered"
    /\ LET result == split_signatures(ordered_pages, sig_length_sheets)
           result_on == split_signatures_on(heap, refs.ordered_pages,
                                            sig_length_sheets)
       IN /\ heap' = result_on.heap
          /\ IF result.raised
             THEN /\ pc' = "split_failed"
                  /\ error' = ErrorOf(result)
                  /\ UNCHANGED <<signatures, refs>>
             ELSE /\ pc' = "split"
                  /\ signatures' = result.value
                  /\ refs' = [refs EXCEPT !.signatures = result_on.ref]
                  /\ UNCHANGED error
    /\ split_per_signature' = pages_per_signature(sig_length_sheets)
    /\ UNCHANGED web_vars
    /\ UNCHANGED <<entry, source_pages, flyleaf_sets, build_with_flyleafs,
                   sig_length_sheets, duplex_rotate, reader_pages,
                   ordered_pages, imposed, output, merged_pages, preview,
                   writer_pages, placed_tokens>>

\* one iteration of the loop over signatures in write_duplex_aggregated_pdf
ImposeSignature ==
    /\ pc = "split"
    /\ Len(imposed) < Len(signatures)
    /\ LET signature == PyIndex(signatures, Len(imposed))
           sides == impose_signature(signature, duplex_rotate)
           writer == [pages |-> writer_pages, placed_tokens |-> placed_tokens,
                      merged |-> merged_pages]
           placed == IF sides.raised THEN sides
                     ELSE place_sides(sides.value, 0, writer, reader_pages, BLANK_PAGE)
           sides_on == impose_signature_on(heap,
                           PyIndex(refs.signatures, Len(imposed)), duplex_rotate)
       IN /\ imposed' = Append(imposed, sides)
          /\ heap' = sides_on.heap
          /\ refs' = IF sides.raised THEN refs
                     ELSE [refs EXCEPT !.sides = Append(@, sides_on.ref)]
          /\ IF placed.raised
             THEN /\ pc' = "write_failed"
                  /\ error' = ErrorOf(placed)
                  /\ UNCHANGED <<writer_pages, placed_tokens, merged_pages>>
             ELSE /\ writer_pages' = placed.value.pages
                  /\ placed_tokens' = placed.value.placed_tokens
                  /\ merged_pages' = placed.value.merged
                  /\ UNCHANGED <<pc, error>>
    /\ UNCHANGED web_vars
    /\ UNCHANGED <<entry, source_pages, flyleaf_sets, build_with_flyleafs,
                   sig_length_sheets, duplex_rotate, reader_pages,
                   ordered_pages, split_per_signature, signatures, output,
                   preview>>

\* the loop is over: write_duplex_aggregated_pdf returns the artifact
WriteDuplexAggregatedPdf ==
    /\ pc = "split"
    /\ Len(imposed) = Len(signatures)
    /\ pc' = "written"
    /\ UNCHANGED web_vars
    /\ UNCHANGED <<entry, source_pages, flyleaf_sets, build_with_flyleafs,
                   sig_length_sheets, duplex_rotate, reader_pages,
                   ordered_pages, split_per_signature, signatures, imposed,
                   output, merged_pages, preview, writer_pages, placed_tokens,
                   error, heap, refs>>

\* the caller imposes the signatures with impose_signatures instead
ImposeSignatures ==
    /\ pc = "split"
    /\ imposed = <<>>
    /\ LET result == impose_signatures(signatures, duplex_rotate)
           result_on == impose_signatures_on(heap, refs.signatures, duplex_rotate)
       IN /\ heap' = result_on.heap
          /\ IF result.raised
             THEN /\ pc' = "impose_failed"
                  /\ error' = ErrorOf(result)
                  /\ UNCHANGED <<output, refs>>
             ELSE /\ pc' = "imposed"
                  /\ output' = result.value
                  /\ refs' = [refs EXCEPT !.output = result_on.ref]
                  /\ UNCHANGED error
    /\ UNCHANGED web_vars
    /\ UNCHANGED <<entry, source_pages, flyleaf_sets, build_with_flyleafs,
                   sig_length_sheets, duplex_rotate, reader_pages,
                   ordered_pages, split_per_signature, signatures, imposed,
                   merged_pages, preview, writer_pages, placed_tokens>>

\* the caller asks for the preview of the first sheet before the full write
WriteFirstSheetPreview ==
    /\ pc = "split"
    /\ imposed = <<>>
    /\ preview = <<>>
    /\ LET result == write_first_sheet_preview(reader_pages, signatures,
                                               duplex_rotate, BLANK_PAGE)
       IN IF result.raised
          THEN /\ pc' = "preview_failed"
               /\ error' = ErrorOf(result)
               /\ UNCHANGED preview
          ELSE /\ preview' = <<result.value>>
               /\ UNCHANGED <<pc, error>>
    /\ heap' = first_side_on(heap, refs.signatures, 0, duplex_rotate)
    /\ UNCHANGED refs
    /\ UNCHANGED web_vars
    /\ UNCHANGED <<entry, source_pages, flyleaf_sets, build_with_flyleafs,
                   sig_length_sheets, duplex_rotate, reader_pages,
                   ordered_pages, split_per_signature, signatures, imposed,
                   output, merged_pages, writer_pages, placed_tokens>>

Next ==
    \/ BuildOrderedPages
    \/ SplitSignatures
    \/ ImposeSignature
    \/ WriteDuplexAggregatedPdf
    \/ ImposeSignatures
    \/ WriteFirstSheetPreview

Spec == Init /\ [][Next]_vars

----------------------------------------------------------------------------
(* The web application *)
(* The server holds an artifact directory left by earlier requests.  A      *)
(* client sends one request: a download of some request id and filename, or *)
(* an upload; after an upload that succeeded it follows the links of the    *)
(* result.  The cleanup may also be called on its own, and the clock moves  *)
(* between the calls.  pc is "web" before the request, "web_links" once an  *)
(* upload has been answered with links, "web_done" at the end.              *)

\* request_id of c repeated
Hex32(c) == [i \in 1..RequestIdLength |-> c]

\* what earlier requests and the operator left behind: a request directory
\* with one file, and two files
InitialChildren ==
    {[name |-> Hex32("a"), is_dir |-> TRUE, st_mtime |-> 0, files |-> {<<"a">>}],
     [name |-> <<"l">>, is_dir |-> FALSE, st_mtime |-> 0, files |-> {}],
     [name |-> <<"m">>, is_dir |-> FALSE, st_mtime |-> 1, files |-> {}]}

\* the request ids of the download calls
RequestIds ==
    {Hex32("a"), Hex32("f"), Hex32("0"),
     Hex32("g"), Hex32("A"),
     [i \in 1..(RequestIdLength - 1) |-> "a"],
     [i \in 1..(RequestIdLength + 1) |-> "a"],
     [i \in 1..RequestIdLength |-> IF i = 1 THEN "/" ELSE "a"],
     <<>>, <<".", ".">>}

\* the filenames of the download calls
Filenames == SeqsUpTo({"a", ".", "/", "\\"}, MaxFilename)

RetentionChoices == -1..MaxRetention

\* the values of uuid4().hex
Uuid4Hex == {[i \in 1..RequestIdLength |-> IF i % 2 = 0 THEN "9" ELSE "c"]}

\* the uploads: nothing, bytes that are no PDF, an encrypted PDF, and PDFs
\* of 0..MaxUploadPages pages
Payloads ==
    {[kind |-> "empty", pages |-> 0], [kind |-> "unreadable", pages |-> 0],
     [kind |-> "encrypted", pages |-> 1]}
    \cup {[kind |-> "pdf", pages |-> n] : n \in 0..MaxUploadPages}

\* "A b.PDF" and "-.pdf"
SourceNames ==
    {<<"A", " ", "b", ".", "P", "D", "F">>, <<"-", ".", "p", "d", "f">>}

\* paper_size with custom_width_points and custom_height_points: a named
\* size, custom dimensions, and a size that does not exist
Papers ==
    {[paper_size |-> "A4", custom_width_points |-> <<>>,
      custom_height_points |-> <<>>],
     [paper_size |-> "Custom", custom_width_points |-> <<595>>,
      custom_height_points |-> <<842>>],
     [paper_size |-> "B9", custom_width_points |-> <<>>,
      custom_height_points |-> <<>>]}

ImpositionOptions(paper, signature_length, flyleafs, rotate, output_mode) ==
    [paper_size |-> paper.paper_size,
     signature_length |-> signature_length,
     flyleafs |-> flyleafs,
     duplex_rotate |-> rotate,
     custom_width_points |-> paper.custom_width_points,
     custom_height_points |-> paper.custom_height_points,
     output_mode |-> output_mode]

OUTPUT_MODES == {"aggregated", "signatures", "both"}

\* the uploads with their options: every payload under every signature
\* length, flyleaf count and output mode on A4, and the longest PDF under
\* every paper, rotation, output mode and source name
Uploads ==
    {[payload |-> payload,
      source_name |-> <<"A", " ", "b", ".", "P", "D", "F">>,
      options |-> ImpositionOptions(
                      [paper_size |-> "A4", custom_width_points |-> <<>>,
                       custom_height_points |-> <<>>],
                      signature_length, flyleafs, FALSE, output_mode)] :
         payload \in Payloads, signature_length \in 0..MaxUploadSheets,
         flyleafs \in -1..MaxUploadFlyleafs, output_mode \in OUTPUT_MODES}
    \cup
    {[payload |-> [kind |-> "pdf", pages |-> MaxUploadPages],
      source_name |-> source_name,
      options |-> ImpositionOptions(paper, 1, 0, rotate, output_mode)] :
         source_name \in SourceNames, paper \in Papers, rotate \in BOOLEAN,
         output_mode \in OUTPUT_MODES}

\* the pipeline is not driven directly
NoPipeline ==
    /\ entry = "web"
    /\ source_pages = <<>>
    /\ reader_pages = 0
    /\ flyleaf_sets = 0
    /\ sig_length_sheets = 0
    /\ duplex_rotate = FALSE
    /\ ordered_pages = <<>>
    /\ signatures = <<>>
    /\ heap = <<>>
    /\ refs = NoRefs
    /\ InitLocals

WebInit ==
    /\ NoPipeline
    /\ pc = "web"
    /\ artifact_dir \in SUBSET InitialChildren
    /\ now = 1
    /\ handler = "none"
    /\ arguments = <<>>
    /\ listing = {}
    /\ outcome = <<>>

\* request_id and filename of /download/{request_id}/{filename}
request_parts(url) ==
    Assign(split(url, "/"), LAMBDA parts :
        [request_id |-> parts[3], filename |-> parts[4]])

\* the downloads a client asks for: any request id and filename at first,
\* the links of the result after an upload
DownloadRequests ==
    IF pc = "web"
    THEN {[request_id |-> request_id, filename |-> filename] :
             request_id \in RequestIds \cup {child.name : child \in artifact_dir},
             filename \in Filenames
                          \cup UNION {child.files : child \in artifact_dir}}
    ELSE {request_parts(url) :
             url \in {outcome.value.result[1].downloads[j].download_url :
                         j \in 1..Len(outcome.value.result[1].downloads)}
                     \cup {outcome.value.result[1].preview_download_url}}

\* GET /download/{request_id}/{filename}
ResolveRequestArtifactPath ==
    /\ entry = "web"
    /\ pc \in {"web", "web_links"}
    /\ \E download \in DownloadRequests :
          /\ arguments' = download
          /\ outcome' = resolve_request_artifact_path(artifact_dir,
                            download.request_id, download.filename)
    /\ pc' = "web_done"
    /\ handler' = "_resolve_request_artifact_path"
    /\ listing' = artifact_dir
    /\ UNCHANGED <<artifact_dir, now>>
    /\ UNCHANGED <<entry, source_pages, flyleaf_sets, build_with_flyleafs,
                   sig_length_sheets, duplex_rotate, reader_pages,
                   ordered_pages, split_per_signature, signatures, imposed,
                   output, merged_pages, preview, writer_pages, placed_tokens,
                   error, heap, refs>>

\* _cleanup_stale_artifacts(artifact_dir, retention_seconds=...)
CleanupStaleArtifacts ==
    /\ entry = "web"
    /\ pc \in {"web", "web_links"}
    /\ \E retention_seconds \in RetentionChoices :
          \E cleaned \in {cleanup_stale_artifacts(artifact_dir,
                                                    retention_seconds, now)} :
             /\ arguments' = [retention_seconds |-> retention_seconds,
                              now |-> now]
             /\ artifact_dir' = cleaned.children
             /\ outcome' = Returns(cleaned.removed)
    /\ pc' = "web_done"
    /\ handler' = "_cleanup_stale_artifacts"
    /\ listing' = artifact_dir
    /\ UNCHANGED now
    /\ UNCHANGED <<entry, source_pages, flyleaf_sets, build_with_flyleafs,
                   sig_length_sheets, duplex_rotate, reader_pages,
                   ordered_pages, split_per_signature, signatures, imposed,
                   output, merged_pages, preview, writer_pages, placed_tokens,
                   error, heap, refs>>

\* POST /impose -> _impose_payload; the request id is one no child of the
\* artifact directory has
ImposePayload ==
    /\ entry = "web"
    /\ pc = "web"
    /\ \E upload \in Uploads, retention_seconds \in RetentionChoices,
          uuid4_hex \in Uuid4Hex :
          /\ \A child \in artifact_dir : child.name # uuid4_hex
          /\ \E call \in {impose_payload(upload.payload, upload.source_name,
                                          upload.options, artifact_dir,
                                          retention_seconds, now, uuid4_hex)} :
                /\ arguments' = [payload |-> upload.payload,
                                 source_name |-> upload.source_name,
                                 options |-> upload.options,
                                 artifact_retention_seconds |-> retention_seconds,
                                 now |-> now,
                                 uuid4_hex |-> uuid4_hex]
                /\ artifact_dir' = call.children
                /\ outcome' = call.outcome
                /\ pc' = IF ~call.outcome.raised /\ call.outcome.value.error = <<>>
                         THEN "web_links" ELSE "web_done"
    /\ handler' = "_impose_payload"
    /\ listing' = artifact_dir
    /\ UNCHANGED now
    /\ UNCHANGED <<entry, source_pages, flyleaf_sets, build_with_flyleafs,
                   sig_length_sheets, duplex_rotate, reader_pages,
                   ordered_pages, split_per_signature, signatures, imposed,
                   output, merged_pages, preview, writer_pages, placed_tokens,
                   error, heap, refs>>

\* a second passes
Tick ==
    /\ entry = "web"
    /\ pc # "web_done"
    /\ now < MaxClock
    /\ now' = now + 1
    /\ UNCHANGED <<artifact_dir, handler, arguments, listing, outcome>>
    /\ UNCHANGED core_vars

WebNext ==
    \/ ResolveRequestArtifactPath
    \/ CleanupStaleArtifacts
    \/ ImposePayload
    \/ Tick

WebSpec == WebInit /\ [][WebNext]_vars

----------------------------------------------------------------------------
(* Vocabulary of the properties *)

\* seq[i] of a 0-based sequence, for 0 <= i < Len(seq)
At(seq, i) == seq[i + 1]

\* the (left, right) pairs of a list of sides
Pairs(sides) == [j \in 1..Len(sides) |-> <<sides[j].left, sides[j].right>>]

\* the faces of a list of sides
Faces(sides) == [j \in 1..Len(sides) |-> sides[j].face]

\* the impose_signature calls made so far
ImposeCalls == 1..Len(imposed)

\* the page tokens 0..7
Range8 == <<IntToken(0), IntToken(1), IntToken(2), IntToken(3),
            IntToken(4), IntToken(5), IntToken(6), IntToken(7)>>

----------------------------------------------------------------------------
(* Properties *)

\* C1: for a signature of length L divisible by 4 imposed with
\* duplex_rotate = False, sheet i (0 <= i < L/4) has the front side
\* (signature[L-1-2i], signature[2i]) and the back side
\* (signature[2i+1], signature[L-2-2i]).
C1_FolioMappingUnrotated ==
    \A j \in ImposeCalls :
        LET signature == signatures[j]
            L == Len(signature)
        IN (L % 4 = 0 /\ ~duplex_rotate) =>
            /\ ~imposed[j].raised
            /\ \A i \in 0..(L \div 4 - 1) :
                LET front == At(imposed[j].value, 2 * i)
                    back == At(imposed[j].value, 2 * i + 1)
                IN /\ front.left = At(signature, L - 1 - 2 * i)
                   /\ front.right = At(signature, 2 * i)
                   /\ back.left = At(signature, 2 * i + 1)
                   /\ back.right = At(signature, L - 2 - 2 * i)

\* C1 witness: a two-sheet signature of distinct pages was imposed unrotated
C1_Witness ==
    /\ ~duplex_rotate
    /\ Len(imposed) >= 1
    /\ signatures[1] = Range8
    /\ Len(imposed[1].value) = 4

\* C2: with duplex_rotate = True the front sides are those of the unrotated
\* imposition and every back side is the unrotated back side with left and
\* right exchanged, i.e. (signature[L-2-2i], signature[2i+1]).
C2_RotateSwapsBack ==
    \A j \in ImposeCalls :
        LET signature == signatures[j]
            L == Len(signature)
            unrotated == impose_signature(signature, FALSE)
        IN (L % 4 = 0 /\ duplex_rotate) =>
            /\ ~imposed[j].raised
            /\ Len(imposed[j].value) = Len(unrotated.value)
            /\ \A i \in 0..(L \div 4 - 1) :
                LET front == At(imposed[j].value, 2 * i)
                    back == At(imposed[j].value, 2 * i + 1)
                    plain == At(unrotated.value, 2 * i + 1)
                IN /\ front = At(unrotated.value, 2 * i)
                   /\ back.face = plain.face
                   /\ back.left = plain.right
                   /\ back.right = plain.left
                   /\ back.left = At(signature, L - 2 - 2 * i)
                   /\ back.right = At(signature, 2 * i + 1)

\* C2 witness: a two-sheet signature of distinct pages was imposed rotated
C2_Witness ==
    /\ duplex_rotate
    /\ Len(imposed) >= 1
    /\ signatures[1] = Range8
    /\ Len(imposed[1].value) = 4
    /\ imposed[1].value[2].left # imposed[1].value[2].right

\* C3: impose_signature returns exactly L/2 sides for a signature of length
\* L divisible by 4, and their faces alternate front, back, front, back, ...
\* so that sheet i has its front at position 2i and its back at 2i+1.
C3_SideCountAndOrder ==
    \A j \in ImposeCalls :
        LET L == Len(signatures[j])
        IN L % 4 = 0 =>
            /\ ~imposed[j].raised
            /\ 2 * Len(imposed[j].value) = L
            /\ \A i \in 0..(L \div 4 - 1) :
                /\ At(imposed[j].value, 2 * i).face = "front"
                /\ At(imposed[j].value, 2 * i + 1).face = "back"

\* C3 witness: a three-sheet signature was imposed
C3_Witness ==
    \E j \in ImposeCalls :
        /\ Len(signatures[j]) = 12
        /\ Faces(imposed[j].value) = <<"front", "back", "front", "back", "front", "back">>

\* C4: the signature [0..7] imposed with duplex_rotate = False gives the
\* pairs (7,0), (1,6), (5,2), (3,4) in that order.
C4_EightPagesUnrotated ==
    \A j \in ImposeCalls :
        (signatures[j] = Range8 /\ ~duplex_rotate) =>
            Pairs(imposed[j].value) =
                << <<IntToken(7), IntToken(0)>>, <<IntToken(1), IntToken(6)>>,
                   <<IntToken(5), IntToken(2)>>, <<IntToken(3), IntToken(4)>> >>

\* C4 witness: [0..7] was imposed with duplex_rotate = False
C4_Witness ==
    \E j \in ImposeCalls :
        signatures[j] = Range8 /\ ~duplex_rotate /\ ~imposed[j].raised

\* C5: the signature [0..7] imposed with duplex_rotate = True gives the
\* pairs (7,0), (6,1), (5,2), (4,3) in that order.
C5_EightPagesRotated ==
    \A j \in ImposeCalls :
        (signatures[j] = Range8 /\ duplex_rotate) =>
            Pairs(imposed[j].value) =
                << <<IntToken(7), IntToken(0)>>, <<IntToken(6), IntToken(1)>>,
                   <<IntToken(5), IntToken(2)>>, <<IntToken(4), IntToken(3)>> >>

\* C5 witness: [0..7] was imposed with duplex_rotate = True
C5_Witness ==
    \E j \in ImposeCalls :
        signatures[j] = Range8 /\ duplex_rotate /\ ~imposed[j].raised

\* the reference run: a 9-page document, flyleaf_sets = 0,
\* sig_length_sheets = 6, duplex_rotate = False, through the whole pipeline
NinePageRun ==
    /\ entry = "build_ordered_pages"
    /\ source_pages = SourcePages(9)
    /\ flyleaf_sets = 0
    /\ sig_length_sheets = 6
    /\ ~duplex_rotate

Failed == pc \in {"build_failed", "split_failed", "write_failed", "impose_failed",
                 "preview_failed"}

\* C6 as stated: in the reference run the BACK side of the first sheet of
\* the first signature is (BLANK, 0).
C6_FirstSheetBackIsBlankZero ==
    (NinePageRun /\ Len(imposed) >= 1) =>
        /\ At(imposed[1].value, 1).face = "back"
        /\ At(imposed[1].value, 1).left = BLANK_PAGE
        /\ At(imposed[1].value, 1).right = IntToken(0)

\* C6 amended: the reference run does not fail, it imposes one signature of
\* 12 tokens, and the FRONT side of its first sheet is (BLANK, 0); the back
\* side of that sheet is (1, BLANK).
C6_FirstSheetFrontIsBlankZero ==
    NinePageRun =>
        /\ ~Failed
        /\ pc \in {"split", "written"} =>
               Len(signatures) = 1 /\ Len(signatures[1]) = 12
        /\ Len(imposed) >= 1 =>
            /\ At(imposed[1].value, 0) = ImposedSide("front", BLANK_PAGE, IntToken(0))
            /\ At(imposed[1].value, 1) = ImposedSide("back", IntToken(1), BLANK_PAGE)

\* C6 witness: the reference run has imposed its signature
C6_Witness == NinePageRun /\ Len(imposed) = 1 /\ ~imposed[1].raised

\* C7: the reference run places exactly six sides, (BLANK,0), (1,BLANK),
\* (BLANK,2), (3,8), (7,4), (5,6), in that order.
C7_NinePagePlacedTokens ==
    NinePageRun =>
        /\ ~Failed
        /\ pc = "written" =>
            /\ GeneratedArtifact.page_count = 6
            /\ GeneratedArtifact.placed_tokens =
                << <<BLANK_PAGE, IntToken(0)>>, <<IntToken(1), BLANK_PAGE>>,
                   <<BLANK_PAGE, IntToken(2)>>, <<IntToken(3), IntToken(8)>>,
                   <<IntToken(7), IntToken(4)>>, <<IntToken(5), IntToken(6)>> >>

\* C7 witness: the reference run has returned its artifact
C7_Witness == NinePageRun /\ pc = "written"

\* C8: impose_signature raises ValueError for every signature whose length
\* is not divisible by 4, whatever duplex_rotate is, and no side is produced
\* or placed.
C8_ImposeRejectsMisaligned ==
    \A j \in ImposeCalls :
        Len(signatures[j]) % 4 # 0 =>
            /\ imposed[j].raised
            /\ imposed[j].type = "ValueError"
            /\ imposed[j].message = "signature length must be divisible by 4"
            /\ imposed[j].value = <<>>
            /\ pc = "write_failed"
            /\ error = ErrorOf(imposed[j])
            /\ j = Len(imposed)
            /\ j = 1 => (placed_tokens = <<>> /\ writer_pages = 0)

\* C8 witness: a signature of six tokens was rejected under duplex_rotate
C8_Witness ==
    /\ duplex_rotate
    /\ Len(imposed) = 1
    /\ Len(signatures[1]) = 6
    /\ imposed[1].raised

\* split_signatures was called on (ordered_pages, sig_length_sheets)
SplitCalled ==
    /\ entry \in {"build_ordered_pages", "split_signatures"}
    /\ pc \notin {"start", "ordered", "build_failed"}

\* the concatenation of a list of sequences
RECURSIVE Concat(_)
Concat(seqs) == IF seqs = <<>> THEN <<>> ELSE Head(seqs) \o Concat(Tail(seqs))

\* C9: for a page sequence whose length is a multiple of 4 and n > 0,
\* split_signatures returns signatures whose concatenation is the page
\* sequence, each of a length that is a positive multiple of 4.
C9_SplitRoundTrip ==
    (SplitCalled /\ Len(ordered_pages) % 4 = 0 /\ sig_length_sheets > 0) =>
        /\ pc # "split_failed"
        /\ Concat(signatures) = ordered_pages
        /\ \A j \in 1..Len(signatures) :
               Len(signatures[j]) > 0 /\ Len(signatures[j]) % 4 = 0

\* C9 witness: a page sequence was split into three signatures
C9_Witness ==
    /\ SplitCalled
    /\ pc = "split"
    /\ Len(signatures) = 3
    /\ Len(ordered_pages) = 12

\* C10: for a page sequence whose length is a multiple of 4 and n > 0,
\* split_signatures returns ceil(len / 4n) consecutive chunks; each but the
\* last has 4n tokens, and the last has between 4 and 4n tokens.
C10_SplitChunks ==
    (SplitCalled /\ Len(ordered_pages) % 4 = 0 /\ sig_length_sheets > 0) =>
        LET per == 4 * sig_length_sheets
            count == Len(signatures)
        IN /\ pc # "split_failed"
           /\ count * per >= Len(ordered_pages)
           /\ (count - 1) * per < Len(ordered_pages)
           /\ \A j \in 1..(count - 1) : Len(signatures[j]) = per
           /\ count >= 1 =>
                  (4 <= Len(signatures[count]) /\ Len(signatures[count]) <= per)
           /\ \A j \in 1..count : \A i \in 1..Len(signatures[j]) :
                  /\ (j - 1) * per + i <= Len(ordered_pages)
                  /\ signatures[j][i] = ordered_pages[(j - 1) * per + i]

\* C10 witness: 20 pages with n = 3 were split into chunks of 12 and 8
C10_Witness ==
    /\ SplitCalled
    /\ Len(ordered_pages) = 20
    /\ sig_length_sheets = 3
    /\ Len(signatures) = 2
    /\ Len(signatures[1]) = 12
    /\ Len(signatures[2]) = 8

\* C11: for n > 0, split_signatures raises ValueError for every input whose
\* length is not a multiple of 4; the input is not padded and no signature
\* is returned.
C11_SplitRejectsMisaligned ==
    (SplitCalled /\ Len(ordered_pages) % 4 # 0 /\ sig_length_sheets > 0) =>
        /\ pc = "split_failed"
        /\ error = [type |-> "ValueError",
                    message |-> "ordered_pages must be padded to a multiple of 4"]
        /\ signatures = <<>>
        /\ imposed = <<>>

\* C11 witness: five pages were handed to split_signatures with n = 2
C11_Witness ==
    /\ entry = "split_signatures"
    /\ pc = "split_failed"
    /\ Len(ordered_pages) = 5
    /\ sig_length_sheets = 2

\* build_ordered_pages was called on (source_pages, flyleaf_sets)
BuildCalled == entry = "build_ordered_pages" /\ pc # "start"

\* C12: for k >= 0, insert_flyleafs(pages, k) is 2k blanks, then pages
\* unchanged and in order, then 2k blanks; its length is len(pages) + 4k.
C12_InsertFlyleafs ==
    (BuildCalled /\ flyleaf_sets >= 0) =>
        LET k == flyleaf_sets
            n == Len(source_pages)
        IN /\ pc # "build_failed"
           /\ Len(build_with_flyleafs) = n + 4 * k
           /\ \A i \in 0..(2 * k - 1) :
                  /\ At(build_with_flyleafs, i) = BLANK_PAGE
                  /\ At(build_with_flyleafs, n + 4 * k - 1 - i) = BLANK_PAGE
           /\ \A i \in 0..(n - 1) :
                  At(build_with_flyleafs, 2 * k + i) = At(source_pages, i)

\* C12 witness: two flyleaf sets were put around three tokens
C12_Witness ==
    /\ BuildCalled
    /\ flyleaf_sets = 2
    /\ Len(source_pages) = 3
    /\ Len(build_with_flyleafs) = 11

\* C13: for every negative flyleaf_sets insert_flyleafs raises ValueError,
\* and build_ordered_pages raises it too instead of returning a page list.
C13_NegativeFlyleafsRejected ==
    (BuildCalled /\ flyleaf_sets < 0) =>
        /\ pc = "build_failed"
        /\ error = [type |-> "ValueError", message |-> "flyleaf_sets must be >= 0"]
        /\ build_with_flyleafs = <<>>
        /\ ordered_pages = <<>>
        /\ signatures = <<>>

\* C13 witness: build_ordered_pages failed on three tokens
C13_Witness ==
    /\ BuildCalled
    /\ flyleaf_sets = -1
    /\ Len(source_pages) = 3
    /\ pc = "build_failed"

\* C14: pad_to_multiple_of_four(pages) is pages followed by exactly
\* (4 - len(pages) mod 4) mod 4 blanks: between 0 and 3 blanks are added,
\* the result is aligned, and an aligned sequence is returned as it is.
C14_PadToMultipleOfFour ==
    (BuildCalled /\ pc # "build_failed") =>
        LET pages == build_with_flyleafs
            added == (4 - (Len(pages) % 4)) % 4
        IN /\ Len(ordered_pages) = Len(pages) + added
           /\ Len(ordered_pages) % 4 = 0
           /\ Len(ordered_pages) - Len(pages) \in 0..3
           /\ \A i \in 0..(Len(pages) - 1) : At(ordered_pages, i) = At(pages, i)
           /\ \A i \in Len(pages)..(Len(ordered_pages) - 1) :
                  At(ordered_pages, i) = BLANK_PAGE
           /\ Len(pages) % 4 = 0 => ordered_pages = pages

\* C14 witness: five tokens were padded with three blanks
C14_Witness ==
    /\ BuildCalled
    /\ pc = "ordered"
    /\ Len(build_with_flyleafs) = 5
    /\ Len(ordered_pages) = 8

\* C15: pages_per_signature(n) returns 4n for n > 0 and raises ValueError
\* for n <= 0, n = 0 included.
C15_PagesPerSignature ==
    SplitCalled =>
        /\ sig_length_sheets > 0 =>
            /\ ~split_per_signature.raised
            /\ split_per_signature.value = 4 * sig_length_sheets
        /\ sig_length_sheets <= 0 =>
            /\ split_per_signature.raised
            /\ split_per_signature.type = "ValueError"
            /\ split_per_signature.message = "sig_length_sheets must be > 0"

\* C15 witness: pages_per_signature was called with 0
C15_Witness ==
    /\ SplitCalled
    /\ sig_length_sheets = 0
    /\ split_per_signature.raised

\* C16: for a source of n integer pages and k >= 0, build_ordered_pages has
\* length 4k + 4*ceil(n/4), page i at index 2k + i, 2k leading blanks and
\* 2k + ((4 - n mod 4) mod 4) trailing blanks.
C16_BuildOrderedPages ==
    (BuildCalled /\ flyleaf_sets >= 0
        /\ source_pages = SourcePages(Len(source_pages))) =>
        LET k == flyleaf_sets
            n == Len(source_pages)
            total == 4 * k + 4 * ((n + 3) \div 4)
            trailing == 2 * k + ((4 - (n % 4)) % 4)
        IN /\ pc # "build_failed"
           /\ Len(ordered_pages) = total
           /\ \A i \in 0..(n - 1) : At(ordered_pages, 2 * k + i) = IntToken(i)
           /\ \A i \in 0..(2 * k - 1) : At(ordered_pages, i) = BLANK_PAGE
           /\ \A i \in 0..(trailing - 1) :
                  At(ordered_pages, total - 1 - i) = BLANK_PAGE
           /\ 2 * k + n + trailing = total

\* C16 witness: 9 pages with one flyleaf set give 16 tokens, BLANK, BLANK,
\* 0, 1 first and three blanks last
C16_Witness ==
    /\ BuildCalled
    /\ source_pages = SourcePages(9)
    /\ flyleaf_sets = 1
    /\ Len(ordered_pages) = 16
    /\ PySlice(ordered_pages, 0, 4) = <<BLANK_PAGE, BLANK_PAGE, IntToken(0), IntToken(1)>>
    /\ PySlice(ordered_pages, 13, 16) = <<BLANK_PAGE, BLANK_PAGE, BLANK_PAGE>>

\* impose_signatures was called on (signatures, duplex_rotate)
ImposeSignaturesCalled == pc \in {"imposed", "impose_failed"}

\* the sides of the signatures, each imposed on its own, one after another
RECURSIVE SidesInOrder(_, _)
SidesInOrder(sigs, rotate) ==
    IF sigs = <<>> THEN <<>>
    ELSE impose_signature(Head(sigs), rotate).value \o SidesInOrder(Tail(sigs), rotate)

\* C17: impose_signatures returns the sides of impose_signature for each
\* signature, concatenated in the order of the signatures; if a signature has
\* a length not divisible by 4 it raises and returns nothing.
C17_ImposeSignaturesConcatenates ==
    ImposeSignaturesCalled =>
        IF \A j \in 1..Len(signatures) : Len(signatures[j]) % 4 = 0
        THEN /\ pc = "imposed"
             /\ output = SidesInOrder(signatures, duplex_rotate)
             /\ 2 * Len(output) = Len(Concat(signatures))
             /\ error = NoError
        ELSE /\ pc = "impose_failed"
             /\ output = <<>>
             /\ error = [type |-> "ValueError",
                         message |-> "signature length must be divisible by 4"]

\* C17 witness: two different one-sheet signatures were imposed
C17_Witness ==
    /\ pc = "imposed"
    /\ Len(signatures) = 2
    /\ Len(signatures[1]) = 4
    /\ signatures[1] # signatures[2]
    /\ Len(output) = 4
    /\ output[1] # output[3]

\* the run is the pipeline on the page indices of a document
PipelineOnRange ==
    /\ entry = "build_ordered_pages"
    /\ source_pages = SourcePages(Len(source_pages))

\* a token the renderer may be handed for a document of n pages
ValidToken(token, n) ==
    \/ token = BLANK_PAGE
    \/ \E i \in 0..(n - 1) : token = IntToken(i)

\* every left and right token of the sides is valid for n pages
ValidSides(sides, n) ==
    \A j \in 1..Len(sides) :
        /\ ValidToken(sides[j].left, n)
        /\ ValidToken(sides[j].right, n)

\* C19: in the pipeline build_ordered_pages(range(n), k), split_signatures,
\* impose_signature, every left and right token of every imposed side is an
\* integer in 0..n-1 or the blank sentinel.
C19_TokensAreIndicesOrBlank ==
    PipelineOnRange =>
        /\ \A j \in ImposeCalls :
               /\ ~imposed[j].raised
               /\ ValidSides(imposed[j].value, Len(source_pages))
        /\ ValidSides(output, Len(source_pages))

\* C19 witness: five pages with one flyleaf set were imposed in three
\* one-sheet signatures, a side holding both a blank and a page index
C19_Witness ==
    /\ PipelineOnRange
    /\ Len(source_pages) = 5
    /\ flyleaf_sets = 1
    /\ sig_length_sheets = 1
    /\ Len(imposed) = 3
    /\ \E j \in 1..Len(imposed[2].value) :
           /\ imposed[2].value[j].left = BLANK_PAGE
           /\ imposed[2].value[j].right = IntToken(2)

\* the tokens of a list of sides in the order the renderer places them
RECURSIVE TokensOf(_)
TokensOf(sides) ==
    IF sides = <<>> THEN <<>>
    ELSE <<Head(sides).left, Head(sides).right>> \o TokensOf(Tail(sides))

\* the tokens of a list of (left, right) pairs, in order
RECURSIVE TokensOfPairs(_)
TokensOfPairs(pairs) ==
    IF pairs = <<>> THEN <<>>
    ELSE <<Head(pairs)[1], Head(pairs)[2]>> \o TokensOfPairs(Tail(pairs))

\* the tokens of a sequence that are not the blank sentinel, in order
RECURSIVE NonBlank(_)
NonBlank(tokens) ==
    IF tokens = <<>> THEN <<>>
    ELSE (IF Head(tokens) = BLANK_PAGE THEN <<>> ELSE <<Head(tokens)>>)
         \o NonBlank(Tail(tokens))

\* neither the blank sentinel nor an integer
InvalidToken(token) == token # BLANK_PAGE /\ token[1] # "int"

\* an integer that is no index into the pages of the reader
OutOfRange(token) ==
    token[1] = "int" /\ (token[2] >= reader_pages \/ token[2] < -reader_pages)

\* the first token of the sequence that cannot be placed is an invalid one
FirstRejectedIsInvalid(tokens) ==
    \E i \in 1..Len(tokens) :
        /\ InvalidToken(tokens[i])
        /\ \A h \in 1..(i - 1) : ~InvalidToken(tokens[h]) /\ ~OutOfRange(tokens[h])

InvalidTokenError ==
    [type |-> "ValueError", message |-> "expected int page token or blank token"]

\* the first side write_first_sheet_preview would place, as a list of sides:
\* one side, or none when no signature has sides or a signature is misaligned
RECURSIVE PreviewSides(_)
PreviewSides(sigs) ==
    IF sigs = <<>> THEN <<>>
    ELSE IF Len(Head(sigs)) % 4 # 0 THEN <<>>
    ELSE IF Len(Head(sigs)) = 0 THEN PreviewSides(Tail(sigs))
    ELSE <<impose_signature(Head(sigs), duplex_rotate).value[1]>>

\* C20: _place_token merges no page for the blank sentinel and raises
\* ValueError "expected int page token or blank token" for a token that is
\* neither the blank sentinel nor an integer; write_duplex_aggregated_pdf and
\* write_first_sheet_preview fail with that error and return no artifact.
C20_PlaceTokenBlankAndInvalid ==
    /\ merged_pages = NonBlank(TokensOfPairs(placed_tokens))
    /\ \A i \in 1..Len(merged_pages) : IsInt(merged_pages[i])
    /\ \A j \in ImposeCalls :
           (~imposed[j].raised /\ FirstRejectedIsInvalid(TokensOf(imposed[j].value)))
               => /\ pc = "write_failed"
                  /\ j = Len(imposed)
                  /\ error = InvalidTokenError
    /\ preview # <<>> =>
           /\ preview[1].placed_tokens = TokensOf(PreviewSides(signatures))
           /\ preview[1].merged = NonBlank(preview[1].placed_tokens)
           /\ \A i \in 1..2 : ~InvalidToken(preview[1].placed_tokens[i])
    /\ (pc = "preview_failed" /\ FirstRejectedIsInvalid(TokensOf(PreviewSides(signatures))))
           => /\ error = InvalidTokenError
              /\ preview = <<>>

\* C20 witness: the full write placed a blank and a page and then failed on
\* an invalid token of a later side
C20_Witness ==
    /\ pc = "write_failed"
    /\ error = InvalidTokenError
    /\ Len(imposed) = 1
    /\ ~imposed[1].raised
    /\ imposed[1].value[1].left = BLANK_PAGE
    /\ imposed[1].value[1].right = IntToken(0)
    /\ InvalidToken(imposed[1].value[2].left)

\* the signatures whose sides the loop of write_duplex_aggregated_pdf has placed
PlacedSignatures == PySlice(signatures, 0, Len(imposed))

\* C21: write_duplex_aggregated_pdf emits one output page per ImposedSide,
\* signature by signature and side by side: placed_tokens is the (left,
\* right) pairs of the concatenated impose_signature results and page_count
\* is the sum over the signatures of len(signature)/2.
C21_OnePagePerSide ==
    /\ pc = "split" =>
           /\ placed_tokens = Pairs(SidesInOrder(PlacedSignatures, duplex_rotate))
           /\ 2 * writer_pages = Len(Concat(PlacedSignatures))
    /\ pc = "written" =>
           /\ GeneratedArtifact.placed_tokens =
                  Pairs(SidesInOrder(signatures, duplex_rotate))
           /\ 2 * GeneratedArtifact.page_count = Len(Concat(signatures))
           /\ GeneratedArtifact.page_count = Len(GeneratedArtifact.placed_tokens)

\* C21 witness: two signatures of two sheets were written on eight pages,
\* the first of them holding page 5 and a blank
C21_Witness ==
    /\ pc = "written"
    /\ Len(signatures) = 2
    /\ Len(signatures[1]) = 8
    /\ GeneratedArtifact.page_count = 8
    /\ GeneratedArtifact.placed_tokens[1] = <<IntToken(5), BLANK_PAGE>>

\* how many times the token occurs in the sequence
Count(token, tokens) == Cardinality({i \in 1..Len(tokens) : tokens[i] = token})

\* the two sequences hold the same tokens the same number of times
SameMultiset(left_tokens, right_tokens) ==
    /\ Len(left_tokens) = Len(right_tokens)
    /\ \A i \in 1..Len(left_tokens) :
           Count(left_tokens[i], left_tokens) = Count(left_tokens[i], right_tokens)

\* C22: for a signature of length divisible by 4 and either duplex_rotate
\* value, the left and right slots of the sides of impose_signature hold
\* every signature token exactly as often as the signature does: no token is
\* dropped and none is placed twice.
C22_SlotsArePermutation ==
    \A j \in ImposeCalls :
        Len(signatures[j]) % 4 = 0 =>
            /\ ~imposed[j].raised
            /\ Len(TokensOf(imposed[j].value)) = Len(signatures[j])
            /\ SameMultiset(signatures[j], TokensOf(imposed[j].value))

\* C22 witness: a rotated three-sheet signature of nine pages and three
\* blanks was imposed
C22_Witness ==
    /\ duplex_rotate
    /\ \E j \in ImposeCalls :
           /\ Len(signatures[j]) = 12
           /\ ~imposed[j].raised
           /\ Count(BLANK_PAGE, signatures[j]) = 3
           /\ Count(IntToken(8), TokensOf(imposed[j].value)) = 1

\* C23: end to end, for n pages, k >= 0 flyleaf sets, m > 0 sheets per
\* signature and either duplex_rotate value, every page index 0..n-1 is in
\* exactly one slot of the output of impose_signatures, and the other
\* 4k + 4*ceil(n/4) - n slots hold the blank sentinel.
C23_EveryPageOnce ==
    (PipelineOnRange /\ flyleaf_sets >= 0 /\ sig_length_sheets > 0
        /\ ImposeSignaturesCalled) =>
        LET n == Len(source_pages)
            k == flyleaf_sets
            slots == TokensOf(output)
        IN /\ pc = "imposed"
           /\ Len(slots) = 4 * k + 4 * ((n + 3) \div 4)
           /\ \A i \in 0..(n - 1) : Count(IntToken(i), slots) = 1
           /\ Count(BLANK_PAGE, slots) = 4 * k + 4 * ((n + 3) \div 4) - n
           /\ \A i \in 1..Len(slots) : ValidToken(slots[i], n)

\* C23 witness: nine pages with one flyleaf set in signatures of two sheets
\* fill sixteen slots, seven of them blank
C23_Witness ==
    /\ PipelineOnRange
    /\ pc = "imposed"
    /\ Len(source_pages) = 9
    /\ flyleaf_sets = 1
    /\ sig_length_sheets = 2
    /\ Len(output) = 8
    /\ Count(BLANK_PAGE, TokensOf(output)) = 7

SheetsError == [type |-> "ValueError", message |-> "sig_length_sheets must be > 0"]

UnpaddedError ==
    [type |-> "ValueError", message |-> "ordered_pages must be padded to a multiple of 4"]

ChunkError ==
    [type |-> "ValueError",
     message |-> "each signature must have a page count divisible by 4"]

\* C24: the per-signature check of split_signatures never fires: an input
\* with sig_length_sheets > 0 and a length divisible by 4 is split into
\* chunks of lengths divisible by 4, and the only errors split_signatures
\* raises are the sig_length_sheets error and the padding error.
C24_ChunkCheckNeverFires ==
    SplitCalled =>
        /\ error # ChunkError
        /\ pc = "split_failed" => error \in {SheetsError, UnpaddedError}
        /\ pc = "split_failed" <=>
               (sig_length_sheets <= 0 \/ Len(ordered_pages) % 4 # 0)
        /\ pc # "split_failed" =>
               \A j \in 1..Len(signatures) : Len(signatures[j]) % 4 = 0

\* C24 witness: twelve pages were split with n = 2 into chunks of eight and
\* four, the last one shorter than a full signature
C24_Witness ==
    /\ SplitCalled
    /\ pc = "split"
    /\ Len(ordered_pages) = 12
    /\ sig_length_sheets = 2
    /\ Len(signatures) = 2
    /\ Len(signatures[2]) = 4

\* C25: split_signatures raises ValueError for every sig_length_sheets <= 0
\* whatever the page sequence is (aligned, misaligned or empty); the check
\* comes before the length check, so a misaligned input with a non-positive
\* sig_length_sheets is reported with the sig_length_sheets error.
C25_NonPositiveSheetsRejectedFirst ==
    (SplitCalled /\ sig_length_sheets <= 0) =>
        /\ pc = "split_failed"
        /\ error = SheetsError
        /\ error # UnpaddedError
        /\ signatures = <<>>
        /\ imposed = <<>>

\* C25 witness: three pages were handed to split_signatures with n = -1
C25_Witness ==
    /\ entry = "split_signatures"
    /\ pc = "split_failed"
    /\ Len(ordered_pages) = 3
    /\ sig_length_sheets = -1
    /\ error = SheetsError

\* C26 as stated: every signature impose_signature accepts without error
\* has a length that is a positive multiple of 4 (the empty signature is
\* rejected), and split_signatures never returns an empty signature.
C26_AcceptedSignaturesArePositive ==
    /\ \A j \in ImposeCalls :
           ~imposed[j].raised =>
               (Len(signatures[j]) > 0 /\ Len(signatures[j]) % 4 = 0)
    /\ (SplitCalled /\ pc # "split_failed") =>
           \A j \in 1..Len(signatures) : Len(signatures[j]) > 0

\* C26 amended: impose_signature accepts exactly the signatures whose length
\* is a multiple of 4, the empty signature included, for which it returns an
\* empty list of sides without error; split_signatures never returns an
\* empty signature, so every signature it hands on has a length that is a
\* positive multiple of 4.
C26_AcceptsMultiplesOfFourZeroIncluded ==
    /\ \A j \in ImposeCalls :
           /\ ~imposed[j].raised <=> Len(signatures[j]) % 4 = 0
           /\ Len(signatures[j]) = 0 =>
                  (~imposed[j].raised /\ imposed[j].value = <<>>)
           /\ (~imposed[j].raised /\ imposed[j].value = <<>>) =>
                  Len(signatures[j]) = 0
    /\ (SplitCalled /\ pc # "split_failed") =>
           \A j \in 1..Len(signatures) :
               Len(signatures[j]) > 0 /\ Len(signatures[j]) % 4 = 0

\* C26 witness: the empty signature was imposed without error and the
\* document written has no page
C26_Witness ==
    /\ pc = "written"
    /\ signatures = << <<>> >>
    /\ Len(imposed) = 1
    /\ ~imposed[1].raised
    /\ imposed[1].value = <<>>
    /\ GeneratedArtifact.page_count = 0

\* the references the caller holds, one entry per reference held
HeldRefs ==
    (IF refs.source_pages # 0 THEN <<refs.source_pages>> ELSE <<>>)
    \o (IF refs.with_flyleafs # 0 THEN <<refs.with_flyleafs>> ELSE <<>>)
    \o (IF refs.ordered_pages # 0 THEN <<refs.ordered_pages>> ELSE <<>>)
    \o refs.signatures \o refs.sides
    \o (IF refs.output # 0 THEN <<refs.output>> ELSE <<>>)

\* C27: insert_flyleafs, pad_to_multiple_of_four, split_signatures and
\* impose_signature leave the list they are given as it was handed in, on
\* success and on error, and return a new list: pad_to_multiple_of_four
\* never extends the caller's list, also when padding is needed.
C27_ArgumentsUnchanged ==
    /\ \A i \in 1..Len(HeldRefs) : HeldRefs[i] \in 1..Len(heap)
    /\ \A i, j \in 1..Len(HeldRefs) : i # j => HeldRefs[i] # HeldRefs[j]
    /\ refs.source_pages # 0 => heap[refs.source_pages] = source_pages
    /\ refs.with_flyleafs # 0 => heap[refs.with_flyleafs] = build_with_flyleafs
    /\ refs.ordered_pages # 0 => heap[refs.ordered_pages] = ordered_pages
    /\ Len(refs.signatures) = Len(signatures)
    /\ \A j \in 1..Len(signatures) : heap[refs.signatures[j]] = signatures[j]
    /\ \A j \in 1..Len(refs.sides) : heap[refs.sides[j]] = imposed[j].value
    /\ refs.output # 0 => heap[refs.output] = output

\* C27 witness: a list of five tokens was padded to eight and split and
\* imposed, and is still the list of five tokens
C27_Witness ==
    /\ pc = "written"
    /\ refs.with_flyleafs # 0
    /\ Len(heap[refs.with_flyleafs]) = 5
    /\ Len(heap[refs.ordered_pages]) = 8
    /\ Len(refs.signatures) = 2
    /\ Len(refs.sides) = 2

\* the last web call was a download of arguments.filename of
\* arguments.request_id
DownloadCalled == handler = "_resolve_request_artifact_path"

\* string is exactly 32 lowercase hex characters
LowercaseHex32(string) ==
    /\ Len(string) = RequestIdLength
    /\ {string[i] : i \in 1..Len(string)} \subseteq HexCharacters

\* filename holds a backslash or a path separator, or is '', '.' or '..'
UnsafeFilename(filename) ==
    \/ Contains(filename, "\\")
    \/ Contains(filename, "/")
    \/ filename \in {<<>>, <<".">>, <<".", ".">>}

\* the request directories of the artifact directory at the call
RequestDirsAtCall(request_id) ==
    {child \in listing : child.name = request_id /\ child.is_dir}

\* C28: _resolve_request_artifact_path reports the first failing check
\* only, in the order request id (400 'Invalid request id' unless it is 32
\* lowercase hex characters), filename (400 'Invalid filename' for a
\* backslash, a path component, '', '.' or '..', whether or not the request
\* directory exists), request directory (410), file (404 'File not found');
\* when every check passes it returns artifact_dir/request_id/filename.
C28_FirstFailureInFixedOrder ==
    DownloadCalled =>
        LET request_id == arguments.request_id
            filename == arguments.filename
        IN outcome =
               IF ~LowercaseHex32(request_id)
               THEN HTTPException(400, "Invalid request id")
               ELSE IF UnsafeFilename(filename)
               THEN HTTPException(400, "Invalid filename")
               ELSE IF RequestDirsAtCall(request_id) = {}
               THEN HTTPException(410, EXPIRED_ARTIFACT_MESSAGE)
               ELSE IF \A child \in RequestDirsAtCall(request_id) :
                           filename \notin child.files
               THEN HTTPException(404, "File not found")
               ELSE Returns(<<request_id, filename>>)

\* '..' is asked of a well-formed request id whose directory is gone: the
\* answer is 400 'Invalid filename', not 410
C28_Witness ==
    /\ DownloadCalled
    /\ arguments.request_id = Hex32("f")
    /\ arguments.filename = <<".", ".">>
    /\ RequestDirsAtCall(arguments.request_id) = {}
    /\ outcome = HTTPException(400, "Invalid filename")

\* the last web call was the cleanup, of arguments.retention_seconds at the
\* time arguments.now
CleanupCalled == handler = "_cleanup_stale_artifacts"

\* the last web call was _impose_payload
ImposeCalled == handler = "_impose_payload"

\* the last web call was _impose_payload and it returned a result
ImposeSucceeded ==
    /\ ImposeCalled
    /\ ~outcome.raised
    /\ outcome.value.error = <<>>

\* the children at the call whose modification time is strictly older than
\* time - retention_seconds; none when retention_seconds is negative
StaleAtCall(retention_seconds, time) ==
    IF retention_seconds < 0 THEN {}
    ELSE {child \in listing : child.st_mtime < time - retention_seconds}

\* the request directory a successful _impose_payload reports: the files
\* its result names, in the directory of its request id
ReportedRequestDir ==
    LET page == outcome.value.result[1]
    IN [name |-> arguments.uuid4_hex, is_dir |-> TRUE,
        st_mtime |-> arguments.now,
        files |-> {page.downloads[j].output_filename :
                      j \in 1..Len(page.downloads)}
                  \cup {page.preview_filename}]

UploadSignatures ==
    split_signatures(
        build_ordered_pages(SourcePages(arguments.payload.pages),
                            arguments.options.flyleafs, BLANK_PAGE).value,
        arguments.options.signature_length).value

\* string ends with suffix
EndsWith(string, suffix) ==
    /\ Len(string) >= Len(suffix)
    /\ SubSeq(string, Len(string) - Len(suffix) + 1, Len(string)) = suffix

\* "_signature<idx>_duplex.pdf"
SignatureSuffix(idx) ==
    <<"_", "s", "i", "g", "n", "a", "t", "u", "r", "e">> \o str(idx)
    \o <<"_", "d", "u", "p", "l", "e", "x", ".", "p", "d", "f">>

\* the total of a sequence of numbers
RECURSIVE Total(_)
Total(numbers) ==
    IF numbers = <<>> THEN 0
    ELSE numbers[1] + Total(SubSeq(numbers, 2, Len(numbers)))

====
